---------------------------- MODULE Spec2Model ----------------------------
(***************************************************************************)
(* A model of the read-only SQLite query engine: the varint and value      *)
(* codec, the value ordering, the table B-tree scan and point lookup, the  *)
(* index B-tree walk and the SELECT executor.                              *)
(*                                                                         *)
(* JavaScript numbers that pass through the bitwise operators are 32-bit   *)
(* two's-complement words; they are modelled as the set of their set bit   *)
(* positions (Word32), so that << and | behave as in the source.           *)
(***************************************************************************)
EXTENDS Integers, Sequences, FiniteSets, TLC

VARIABLES
    pc,        \* position of the running call: the function running, "idle",
               \* "returned" or "threw"
    arg,       \* the arguments of the running call
    ret,       \* the value the call returned (meaningful once pc = "returned")
    file,      \* the database file: page number -> page
    pages,     \* the queue of pages of a B-tree walk (const pages = [rootPage])
    rows,      \* what the walk has accumulated (let rows / let rowIds)
    cache,     \* pagePromiseByPageNumer: page number -> state of the promise
    descents,  \* the getRowWithId calls in flight, one per input row-id
    done,      \* the calls completed earlier on this database, with their results
    reads,     \* page number -> the readPage calls the walk under way has made
    sqliteSchema,  \* what getTablesAndIndexes finds in the file: tables, indexes
    selectNode,    \* the statement executeSql runs, as parseSql returns it
    stdout,        \* the lines console.log has written
    args,          \* main.ts: databaseFilePath (args[2]) and command (args[3])
    fileHandle,    \* database.fileHandle: "none", "open" or "closed"
    stderr         \* the lines console.error has written

mainVars == <<args, fileHandle, stderr>>
sqlVars == <<sqliteSchema, selectNode, stdout, mainVars>>
vars == <<pc, arg, ret, file, pages, rows, cache, descents, done, reads, sqlVars>>
dbVars == <<file, pages, rows, cache, descents, done, reads, sqlVars>>

\* No program runs: executeSql and the walks are called on their own.
NoMain ==
    /\ args = <<>>
    /\ fileHandle = "none"
    /\ stderr = <<>>

\* No statement runs: the walks are called on their own.
NoSql ==
    /\ NoMain
    /\ sqliteSchema = <<>>
    /\ selectNode = <<>>
    /\ stdout = <<>>

\* The arguments before any call.
ArgNone ==
    [call |-> "none", rootPage |-> 0, tableSchema |-> <<>>, columnsToRetrieve |-> {},
     filter |-> [on |-> FALSE], rowIds |-> <<>>, indexValue |-> <<>>]

\* The codec and ordering checks run without a database.
NoDatabase ==
    /\ file = <<>>
    /\ pages = <<>>
    /\ rows = <<>>
    /\ cache = <<>>
    /\ descents = <<>>
    /\ done = <<>>
    /\ reads = <<>>
    /\ NoSql

(***************************************************************************)
(* Bounds of the model.                                                    *)
(***************************************************************************)
MaxContBytes == 9      \* longest run of continuation bytes in a varint view
MaxInt == 2            \* integers of the ordering check range over -MaxInt..MaxInt
MaxTextLen == 2        \* longest text of the ordering check
MaxRecordLen == 3      \* longest record array of the composite comparison
MaxRowId == 3          \* stored row-ids below 2^31 of a table B-tree
MaxDepth == 2          \* levels of a B-tree
MaxEntries == 4        \* entries of an index B-tree
MaxBatch == 2          \* row-ids of one getRowsByRowIds call
MaxSourceLen == 4      \* longest source of the scanner
MaxPages == 3          \* pages of a page graph
MaxReads == 15         \* page reads of one traversal of a page graph

(***************************************************************************)
(* 32-bit words (the operands of JavaScript's << and |).                   *)
(***************************************************************************)
RECURSIVE SumPow2(_)
SumPow2(S) ==
    IF S = {} THEN 0
    ELSE LET i == CHOOSE x \in S : TRUE IN 2^i + SumPow2(S \ {i})

\* The bit positions set in the non-negative integer x (x < 2^31).
BitsOf(x) == {i \in 0..30 : (x \div (2^i)) % 2 = 1}

\* a << count on 32-bit words: the count is taken modulo 32 and the bits
\* shifted past position 31 are dropped.
Shl32(bits, count) ==
    LET c == count % 32
    IN  {i + c : i \in {j \in bits : j + c <= 31}}

\* The signed value of a 32-bit word (bit 31 is the sign).
ToInt32(bits) ==
    IF 31 \in bits
    THEN (SumPow2(bits \ {31}) - 2^30) - 2^30
    ELSE SumPow2(bits)

(***************************************************************************)
(* utils.ts: readVarint.  A DataView is the sequence of the bytes from its *)
(* offset to the end of its buffer; getUint8 past the end throws.          *)
(***************************************************************************)
VarintLoopLimit == 9

RECURSIVE VarintBytesReadLimit8(_, _)
VarintBytesReadLimit8(data, n) ==
    IF n + 1 > Len(data) THEN -1
    ELSE IF n + 1 < 8 /\ data[n + 1] >= 128
         THEN VarintBytesReadLimit8(data, n + 1)
         ELSE n + 1

\* The do-while loop: the number of bytes pushed, having pushed n already;
\* -1 when getUint8 reads past the end of the view (RangeError).
RECURSIVE VarintBytesRead(_, _)
VarintBytesRead(data, n) ==
    IF n + 1 > Len(data) THEN -1
    ELSE IF n + 1 < VarintLoopLimit /\ data[n + 1] >= 128
         THEN VarintBytesRead(data, n + 1)
         ELSE n + 1

\* bytes.forEach: value |= (byte & 0x7F) << ((bytes.length - index - 1) * 7)
VarintValue(data, len) ==
    ToInt32(UNION {Shl32(BitsOf(data[i] % 128), (len - i) * 7) : i \in 1..len})

readVarint(data) ==
    LET n == VarintBytesRead(data, 0)
    IN  IF n = -1
        THEN [error |-> "RangeError", value |-> 0, bytesRead |-> 0]
        ELSE [error |-> "", value |-> VarintValue(data, n), bytesRead |-> n]

advanceDataView(view, advanceBy) == SubSeq(view, advanceBy + 1, Len(view))

(***************************************************************************)
(* Values (DataValueType = number | string | null).  A string is the       *)
(* sequence of its UTF-16 code units.                                      *)
(***************************************************************************)
Null == [kind |-> "null", num |-> 0, str |-> <<>>]
Num(n) == [kind |-> "number", num |-> n, str |-> <<>>]
Str(s) == [kind |-> "string", num |-> 0, str |-> s]

\* JavaScript's s < t on strings: code unit by code unit, a proper prefix first.
RECURSIVE StrLess(_, _)
StrLess(s, t) ==
    IF t = <<>> THEN FALSE
    ELSE IF s = <<>> THEN TRUE
    ELSE IF Head(s) # Head(t) THEN Head(s) < Head(t)
    ELSE StrLess(Tail(s), Tail(t))

compareSqliteValuesCrossKindMinus(value1, value2) ==
    IF value1 = value2 THEN 0
    ELSE IF value1.kind = "null" THEN -1
    ELSE IF value2.kind = "null" THEN 1
    ELSE IF value1.kind = value2.kind
         THEN IF value1.kind = "number"
              THEN (IF value1.num < value2.num THEN -1 ELSE 1)
              ELSE (IF StrLess(value1.str, value2.str) THEN -1 ELSE 1)
    ELSE -1

compareSqliteValues(value1, value2) ==
    IF value1 = value2 THEN 0
    ELSE IF value1.kind = "null" THEN -1
    ELSE IF value2.kind = "null" THEN 1
    ELSE IF value1.kind = value2.kind
         THEN IF value1.kind = "number"
              THEN (IF value1.num < value2.num THEN -1 ELSE 1)
              ELSE (IF StrLess(value1.str, value2.str) THEN -1 ELSE 1)
    ELSE IF value1.kind = "number" THEN -1
    ELSE 1

Min(a, b) == IF a < b THEN a ELSE b

RECURSIVE RecordCompareFrom(_, _, _, _)
RecordCompareFrom(record1, record2, i, commonLength) ==
    IF i > commonLength THEN 0
    ELSE LET comparisonResult == compareSqliteValues(record1[i], record2[i])
         IN  IF comparisonResult # 0 THEN comparisonResult
             ELSE RecordCompareFrom(record1, record2, i + 1, commonLength)

recordArraysSortingPredicateSkipLast(record1, record2) ==
    RecordCompareFrom(record1, record2, 1, Min(Len(record1), Len(record2)) - 1)

recordArraysSortingPredicate(record1, record2) ==
    RecordCompareFrom(record1, record2, 1, Min(Len(record1), Len(record2)))

(***************************************************************************)
(* database-types.ts: serialCodeToDatabaseType.                            *)
(***************************************************************************)
serialCodeToDatabaseType(code) ==
    IF code = 0 THEN [valueType |-> "null", size |-> 0]
    ELSE IF code >= 1 /\ code <= 4 THEN [valueType |-> "integer", size |-> code]
    ELSE IF code = 5 THEN [valueType |-> "integer", size |-> 6]
    ELSE IF code = 6 THEN [valueType |-> "integer", size |-> 8]
    ELSE IF code = 8 THEN [valueType |-> "zero", size |-> 0]
    ELSE IF code = 9 THEN [valueType |-> "one", size |-> 0]
    ELSE IF code >= 13 /\ code % 2 = 1
         THEN [valueType |-> "string", size |-> (code - 13) \div 2]
    ELSE [valueType |-> "other", size |-> 0]

(***************************************************************************)
(* database.ts: readRecordColumnValue.  The DataView getters read          *)
(* big-endian; the signed ones are two's complement.                       *)
(***************************************************************************)
SignedByte(b) == IF b >= 128 THEN b - 256 ELSE b

getInt8(view) == SignedByte(view[1])
getInt16(view) == SignedByte(view[1]) * 256 + view[2]
getInt32(view) ==
    SignedByte(view[1]) * 16777216 + view[2] * 65536 + view[3] * 256 + view[4]

\* (getUint8(0) << 16) | (getUint8(1) << 8) | getUint8(2)
ReadInt24(view) ==
    ToInt32(Shl32(BitsOf(view[1]), 16) \cup Shl32(BitsOf(view[2]), 8)
            \cup BitsOf(view[3]))

\* Buffer.toString('utf-8') on the bytes the model stores in text fields:
\* an ASCII byte is its own code unit, and a byte that can start no UTF-8
\* sequence (0xFF) decodes to U+FFFD.
Utf8Decode(bytes) ==
    [i \in 1..Len(bytes) |-> IF bytes[i] < 128 THEN bytes[i] ELSE 65533]

Returned(value) == [error |-> "", value |-> value]
Thrown(message) == [error |-> message, value |-> Null]

readRecordColumnValue(databaseType, currentRecordView) ==
    IF databaseType.valueType = "string"
    THEN Returned(Str(Utf8Decode(
             SubSeq(currentRecordView, 1,
                    Min(databaseType.size, Len(currentRecordView))))))
    ELSE IF databaseType.valueType = "null" THEN Returned(Null)
    ELSE IF databaseType.valueType = "zero" THEN Returned(Num(0))
    ELSE IF databaseType.valueType = "one" THEN Returned(Num(1))
    ELSE IF databaseType.valueType = "integer"
         THEN IF databaseType.size \notin {1, 2, 3, 4}
              THEN Thrown("Unsupported integer size")
              ELSE IF Len(currentRecordView) < databaseType.size
              THEN Thrown("RangeError")
              ELSE IF databaseType.size = 1
              THEN Returned(Num(getInt8(currentRecordView)))
              ELSE IF databaseType.size = 2
              THEN Returned(Num(getInt16(currentRecordView)))
              ELSE IF databaseType.size = 3
              THEN Returned(Num(ReadInt24(currentRecordView)))
              ELSE Returned(Num(getInt32(currentRecordView)))
    ELSE Thrown("Unsupported size")

(***************************************************************************)
(* database.ts: pages and cells.  A page is its type, its cells in         *)
(* cell-pointer order and its rightmost pointer; a cell keeps what the     *)
(* cell readers take from its bytes: the 4-byte left child pointer, the    *)
(* bytes of its varint (the row-id of a table leaf cell, the key of a      *)
(* table interior cell), the serial type codes of its record header and    *)
(* the bytes of its record body.                                           *)
(***************************************************************************)
InteriorIndex == 2
InteriorTable == 5
LeafIndex == 10
LeafTable == 13

SupportedPageTypes == {InteriorTable, LeafTable, InteriorIndex, LeafIndex}

\* readPage: the page read at pageNumber, or the throw for a page whose type
\* byte is none of the four (a page past the end of the file reads as zeros).
readPageThrows(f, pageNumber) ==
    \/ pageNumber \notin DOMAIN f
    \/ f[pageNumber].type \notin SupportedPageTypes

\* readPage is called for pageNumber, and for each of pointers in turn.
ReadPage(counts, pageNumber) ==
    IF pageNumber \in DOMAIN counts
    THEN [counts EXCEPT ![pageNumber] = @ + 1]
    ELSE counts @@ (pageNumber :> 1)

RECURSIVE ReadPages(_, _)
ReadPages(counts, pointers) ==
    IF pointers = <<>> THEN counts
    ELSE ReadPages(ReadPage(counts, Head(pointers)), Tail(pointers))

readTableLeafCell(cell) ==
    [rowId |-> readVarint(cell.varint).value,
     serialTypeCodes |-> cell.serialTypeCodes,
     recordBodyView |-> cell.body]

readTableInteriorCell(cell) ==
    [leftChildPointer |-> cell.leftChildPointer,
     key |-> readVarint(cell.varint).value]

\* A row: the retrieved columns by name, and the cell it was decoded from
\* (page number and cell index; kept for the statements about rows).
Put(columns, name, value) ==
    [x \in DOMAIN columns \cup {name} |-> IF x = name THEN value ELSE columns[x]]

\* readRecord: cell.serialTypeCodes.forEach from columnIndex on.
RECURSIVE ReadRecordFrom(_, _, _, _, _, _)
ReadRecordFrom(codes, view, tableSchema, columnsToRetrieve, columnIndex, row) ==
    IF columnIndex > Len(codes) THEN [error |-> "", row |-> row]
    ELSE LET databaseType == serialCodeToDatabaseType(codes[columnIndex])
         IN  IF databaseType.valueType = "other"
             THEN [error |-> "Unsupported serial code", row |-> row]
             ELSE IF columnIndex > Len(tableSchema)
             THEN [error |-> "TypeError", row |-> row]
             ELSE LET columnName == tableSchema[columnIndex].name
                      read == readRecordColumnValue(databaseType, view)
                  IN  IF columnName \in columnsToRetrieve /\ read.error # ""
                      THEN [error |-> read.error, row |-> row]
                      ELSE ReadRecordFrom(
                               codes, advanceDataView(view, databaseType.size),
                               tableSchema, columnsToRetrieve, columnIndex + 1,
                               IF columnName \in columnsToRetrieve
                               THEN Put(row, columnName, read.value)
                               ELSE row)

readRecord(cell, tableSchema, columnsToRetrieve) ==
    ReadRecordFrom(cell.serialTypeCodes, cell.recordBodyView, tableSchema,
                   columnsToRetrieve, 1, <<>>)

\* tableSchema.find(column => column.isPrimaryKey): its index, 0 for undefined.
primaryKeyColumn(tableSchema) ==
    LET keys == {i \in 1..Len(tableSchema) : tableSchema[i].isPrimaryKey}
    IN  IF keys = {} THEN 0 ELSE CHOOSE i \in keys : \A j \in keys : i <= j

\* row[primaryKeyColumn.name] = cell.rowId, when there is a primary key column.
SubstituteRowIdOmitted(row, tableSchema, rowId) == row

SubstituteRowId(row, tableSchema, rowId) ==
    IF primaryKeyColumn(tableSchema) = 0 THEN row
    ELSE Put(row, tableSchema[primaryKeyColumn(tableSchema)].name, Num(rowId))

\* The row of cell number i of a table leaf page.
TableLeafRow(f, pageNumber, i, tableSchema, columnsToRetrieve) ==
    LET cell == readTableLeafCell(f[pageNumber].cells[i])
        record == readRecord(cell, tableSchema, columnsToRetrieve)
    IN  [error |-> record.error,
         row |-> [cell |-> <<pageNumber, i>>,
                  columns |-> SubstituteRowId(record.row, tableSchema, cell.rowId)]]

\* getAllTableLeafPageRows: offsets.map(...), which stops at the first throw.
getAllTableLeafPageRows(f, pageNumber, tableSchema, columnsToRetrieve) ==
    LET n == Len(f[pageNumber].cells)
        read == [i \in 1..n |->
                    TableLeafRow(f, pageNumber, i, tableSchema, columnsToRetrieve)]
        failed == {i \in 1..n : read[i].error # ""}
    IN  IF failed # {}
        THEN [error |-> read[CHOOSE i \in failed : \A j \in failed : i <= j].error,
              rows |-> <<>>]
        ELSE [error |-> "", rows |-> [i \in 1..n |-> read[i].row]]

\* The pointers of the cells alone.
TableChildPointersOfCells(page) ==
    [i \in 1..Len(page.cells) |-> readTableInteriorCell(page.cells[i]).leftChildPointer]

\* getAllTableInteriorPageCells, then the pointers in the order they are read:
\* every left child in cell-pointer order, then the rightmost pointer.
TableChildPointers(page) ==
    [i \in 1..Len(page.cells) |-> readTableInteriorCell(page.cells[i]).leftChildPointer]
        \o <<page.rightMostPointer>>

\* getChildTablePageContainingRowId: the bisection over the cell keys.
RECURSIVE ChildBisect(_, _, _, _)
ChildBisect(page, rowId, left, right) ==
    IF left < right
    THEN LET mid == (left + right) \div 2
             cell == readTableInteriorCell(page.cells[mid + 1])
         IN  IF cell.key < rowId
             THEN ChildBisect(page, rowId, mid + 1, right)
             ELSE ChildBisect(page, rowId, left, mid)
    ELSE left

getChildTablePageContainingRowId(page, rowId) ==
    LET left == ChildBisect(page, rowId, 0, Len(page.cells))
    IN  IF left = Len(page.cells)
        THEN page.rightMostPointer
        ELSE readTableInteriorCell(page.cells[left + 1]).leftChildPointer

\* getCellWithRowIdFromTableLeafPage: the bisection with the inclusive bound.
\* It returns the index of the cell (from 1), 0 for null, and -1 when it
\* throws: offsets[mid] is undefined for mid = offsets.length, the view made
\* from it is empty and readVarint reads past its end.
RECURSIVE LeafBisect(_, _, _, _)
LeafBisect(page, rowId, left, right) ==
    IF left <= right
    THEN LET mid == (left + right) \div 2
         IN  IF mid >= Len(page.cells) THEN -1
             ELSE LET cell == readTableLeafCell(page.cells[mid + 1])
                  IN  IF cell.rowId = rowId THEN mid + 1
                      ELSE IF cell.rowId < rowId
                      THEN LeafBisect(page, rowId, mid + 1, right)
                      ELSE LeafBisect(page, rowId, left, mid - 1)
    ELSE 0

getCellWithRowIdFromTableLeafPage(page, rowId) ==
    LeafBisect(page, rowId, 0, Len(page.cells))

(***************************************************************************)
(* database.ts: getAllTableRows, one action per iteration of its loop.     *)
(* arg holds the parameters of the call: table.rootPage, tableSchema,      *)
(* columnsToRetrieve and the filter (the WHERE equality, or none).         *)
(***************************************************************************)
Finish(call) == Append(done, [call |-> call, outcome |-> pc, result |-> ret])

\* whereFilter: rows.filter(row => row[where.columnName] === where.value)
ApplyFilter(filter, pageRows) ==
    IF ~filter.on THEN pageRows
    ELSE SelectSeq(pageRows,
                   LAMBDA row : /\ filter.columnName \in DOMAIN row.columns
                                /\ row.columns[filter.columnName] = filter.value)

GetAllTableRowsStart(rootPage, tableSchema, columnsToRetrieve, filter) ==
    /\ arg' = [arg EXCEPT !.call = "getAllTableRows", !.rootPage = rootPage,
                          !.tableSchema = tableSchema,
                          !.columnsToRetrieve = columnsToRetrieve, !.filter = filter]
    /\ IF readPageThrows(file, rootPage)
       THEN /\ pc' = "threw"
            /\ ret' = "Unsupported page type"
            /\ UNCHANGED <<pages, rows>>
       ELSE /\ pc' = "getAllTableRows"
            /\ pages' = <<rootPage>>
            /\ rows' = <<>>
            /\ ret' = <<>>
    /\ reads' = (rootPage :> 1)
    /\ UNCHANGED <<file, cache, descents, sqlVars>>

\* const page = pages.shift()!, then the branch on page.type.
ScanPage ==
    /\ pc = "getAllTableRows"
    /\ pages # <<>>
    /\ LET pageNumber == Head(pages)
           page == file[pageNumber]
       IN  CASE page.type = LeafTable ->
                    LET read == getAllTableLeafPageRows(
                                    file, pageNumber, arg.tableSchema,
                                    arg.columnsToRetrieve)
                    IN  IF read.error # ""
                        THEN /\ pc' = "threw"
                             /\ ret' = read.error
                             /\ UNCHANGED <<pages, rows>>
                        ELSE /\ rows' = rows \o ApplyFilter(arg.filter, read.rows)
                             /\ pages' = Tail(pages)
                             /\ UNCHANGED <<pc, ret>>
             [] page.type = InteriorTable ->
                    LET pointers == TableChildPointers(page)
                    IN  IF \E i \in 1..Len(pointers) : readPageThrows(file, pointers[i])
                        THEN /\ pc' = "threw"
                             /\ ret' = "Unsupported page type"
                             /\ UNCHANGED <<pages, rows>>
                        ELSE /\ pages' = Tail(pages) \o pointers
                             /\ UNCHANGED <<pc, ret, rows>>
             [] OTHER ->
                    /\ pages' = Tail(pages)
                    /\ UNCHANGED <<pc, ret, rows>>
    /\ reads' = IF file[Head(pages)].type = InteriorTable
                THEN ReadPages(reads, TableChildPointers(file[Head(pages)]))
                ELSE reads
    /\ UNCHANGED <<arg, file, cache, descents, done, sqlVars>>

\* The queue is empty: return rows.
ScanReturn ==
    /\ pc = "getAllTableRows"
    /\ pages = <<>>
    /\ pc' = "returned"
    /\ ret' = rows
    /\ UNCHANGED <<arg, file, pages, rows, cache, descents, done, reads, sqlVars>>

(***************************************************************************)
(* database.ts: getRowsByRowIds.  rowIds.map starts one getRowWithId per   *)
(* row-id; each awaits the promise of the page it needs from the pages     *)
(* cache, which starts a read only for a page number it has no promise     *)
(* for.  The reads settle in any order, and a descent resumes once the     *)
(* promise it awaits has settled.                                          *)
(***************************************************************************)
\* pagesCache.getPage keeping the page read instead of its promise: a page
\* whose read has not settled is read again.
getPageUnlessSettled(c, pageNumber) ==
    IF pageNumber \in DOMAIN c.cache /\ c.cache[pageNumber] # "pending" THEN c
    ELSE [cache |-> [p \in DOMAIN c.cache \cup {pageNumber} |->
                        IF p = pageNumber THEN "pending" ELSE c.cache[p]],
          reads |-> ReadPage(c.reads, pageNumber)]

\* pagesCache.getPage on c = (cache, reads): readPage is called only for a
\* page number without a promise.
getPage(c, pageNumber) ==
    IF pageNumber \in DOMAIN c.cache THEN c
    ELSE [cache |-> c.cache @@ (pageNumber :> "pending"),
          reads |-> ReadPage(c.reads, pageNumber)]

\* rowIds.map(rowId => getRowWithId(rowId)): each call runs to its first
\* await, pagesCache.getPage(table.rootPage).
RECURSIVE StartDescents(_, _, _)
StartDescents(c, rootPage, n) ==
    IF n = 0 THEN c ELSE StartDescents(getPage(c, rootPage), rootPage, n - 1)

\* Promise.all(searchPromises) once every promise is fulfilled.
PromiseAllSortedByRowId(settled) ==
    LET before(i) == Cardinality({j \in 1..Len(settled) :
                         \/ settled[j].rowId < settled[i].rowId
                         \/ settled[j].rowId = settled[i].rowId /\ j < i})
    IN  [n \in 1..Len(settled) |->
            settled[CHOOSE i \in 1..Len(settled) : before(i) = n - 1].row]

PromiseAll(settled) == [i \in 1..Len(settled) |-> settled[i].row]

GetRowsByRowIdsStart(rootPage, tableSchema, columnsToRetrieve, rowIds) ==
    /\ arg' = [arg EXCEPT !.call = "getRowsByRowIds", !.rootPage = rootPage,
                          !.tableSchema = tableSchema,
                          !.columnsToRetrieve = columnsToRetrieve, !.rowIds = rowIds]
    /\ pc' = "getRowsByRowIds"
    /\ ret' = <<>>
    /\ descents' = [i \in 1..Len(rowIds) |->
                       [rowId |-> rowIds[i], page |-> rootPage,
                        status |-> "awaiting", error |-> "", row |-> <<>>]]
    /\ LET started == StartDescents([cache |-> <<>>, reads |-> <<>>],
                                    rootPage, Len(rowIds))
       IN  cache' = started.cache /\ reads' = started.reads
    /\ UNCHANGED <<file, pages, rows, sqlVars>>

\* A read started by pagesCache.getPage completes: readPage returns or throws.
PageReadSettles(pageNumber) ==
    /\ pc = "getRowsByRowIds"
    /\ pageNumber \in DOMAIN cache
    /\ cache[pageNumber] = "pending"
    /\ cache' = [cache EXCEPT ![pageNumber] =
                    IF readPageThrows(file, pageNumber) THEN "rejected" ELSE "fulfilled"]
    /\ UNCHANGED <<pc, arg, ret, file, pages, rows, descents, done, reads, sqlVars>>

\* getRowWithId resumes after its await and runs to its next await, its
\* return or its throw.
DescentResumes(i) ==
    /\ pc = "getRowsByRowIds"
    /\ i \in 1..Len(descents)
    /\ descents[i].status = "awaiting"
    /\ cache[descents[i].page] # "pending"
    /\ LET d == descents[i]
           page == file[d.page]
           Reject(message) ==
               /\ descents' = [descents EXCEPT ![i].status = "rejected",
                                               ![i].error = message]
               /\ UNCHANGED <<cache, reads>>
       IN  IF cache[d.page] = "rejected" THEN Reject("Unsupported page type")
           ELSE CASE page.type = LeafTable ->
                        LET found == getCellWithRowIdFromTableLeafPage(page, d.rowId)
                            read == TableLeafRow(file, d.page, found, arg.tableSchema,
                                                 arg.columnsToRetrieve)
                        IN  IF found = -1 THEN Reject("RangeError")
                            ELSE IF found = 0 THEN Reject("Row not found in page")
                            ELSE IF read.error # "" THEN Reject(read.error)
                            ELSE /\ descents' = [descents EXCEPT
                                                    ![i].status = "fulfilled",
                                                    ![i].row = read.row]
                                 /\ UNCHANGED <<cache, reads>>
                  [] page.type = InteriorTable ->
                        LET child == getChildTablePageContainingRowId(page, d.rowId)
                            got == getPage([cache |-> cache, reads |-> reads], child)
                        IN  /\ cache' = got.cache
                            /\ reads' = got.reads
                            /\ descents' = [descents EXCEPT ![i].page = child]
                  [] OTHER -> Reject("Row not found")
    /\ UNCHANGED <<pc, arg, ret, file, pages, rows, done, sqlVars>>

\* Promise.all(searchPromises) rejects with a rejected descent ...
LookupThrows ==
    /\ pc = "getRowsByRowIds"
    /\ \E i \in 1..Len(descents) :
          /\ descents[i].status = "rejected"
          /\ ret' = descents[i].error
    /\ pc' = "threw"
    /\ UNCHANGED <<arg, file, pages, rows, cache, descents, done, reads, sqlVars>>

\* ... and resolves, once every descent has returned, with the rows in the
\* order of the input row-ids.
LookupReturns ==
    /\ pc = "getRowsByRowIds"
    /\ \A i \in 1..Len(descents) : descents[i].status = "fulfilled"
    /\ pc' = "returned"
    /\ ret' = PromiseAll(descents)
    /\ UNCHANGED <<arg, file, pages, rows, cache, descents, done, reads, sqlVars>>

(***************************************************************************)
(* database.ts: index cells and getRowIdsWithIndexValue, one action per    *)
(* iteration of its loop.  rows holds rowIds; arg.indexValue is the key    *)
(* prefix searched.                                                        *)
(***************************************************************************)
readIndexLeafCell(cell) ==
    [serialTypeCodes |-> cell.serialTypeCodes,
     keyRecordBodyView |-> cell.body]

readIndexInteriorCell(cell) ==
    [leftChildPointer |-> cell.leftChildPointer,
     serialTypeCodes |-> cell.serialTypeCodes,
     keyRecordBodyView |-> cell.body]

\* readRecordAsArray: cell.serialTypeCodes.forEach from position i on.
RECURSIVE ReadRecordAsArrayFrom(_, _, _, _)
ReadRecordAsArrayFrom(codes, recordView, i, record) ==
    IF i > Len(codes) THEN [error |-> "", record |-> record]
    ELSE LET databaseType == serialCodeToDatabaseType(codes[i])
         IN  IF databaseType.valueType = "other"
             THEN [error |-> "Unsupported serial code", record |-> record]
             ELSE LET column == readRecordColumnValue(databaseType, recordView)
                  IN  IF column.error # ""
                      THEN [error |-> column.error, record |-> record]
                      ELSE ReadRecordAsArrayFrom(
                               codes, advanceDataView(recordView, databaseType.size),
                               i + 1, Append(record, column.value))

readRecordAsArray(cell) ==
    ReadRecordAsArrayFrom(cell.serialTypeCodes, cell.keyRecordBodyView, 1, <<>>)

\* keyRecord.pop(): the last element, undefined (here Null) of an empty array.
Pop(keyRecord) == IF keyRecord = <<>> THEN Null ELSE keyRecord[Len(keyRecord)]

\* The leaf loop pushing on comparisonResult <= 0.
RECURSIVE IndexLeafFromPushSmaller(_, _, _, _)
IndexLeafFromPushSmaller(page, indexValue, i, rowIds) ==
    IF i > Len(page.cells) THEN [error |-> "", rowIds |-> rowIds]
    ELSE LET keyRecord == readRecordAsArray(readIndexLeafCell(page.cells[i]))
             comparisonResult ==
                 recordArraysSortingPredicate(keyRecord.record, indexValue)
             pushed == IF comparisonResult <= 0
                       THEN Append(rowIds, Pop(keyRecord.record))
                       ELSE rowIds
         IN  IF keyRecord.error # ""
             THEN [error |-> keyRecord.error, rowIds |-> rowIds]
             ELSE IF comparisonResult > 0
             THEN [error |-> "", rowIds |-> pushed]
             ELSE IndexLeafFromPushSmaller(page, indexValue, i + 1, pushed)

\* for (const cell of cells) on a leaf page, from cell i on.
RECURSIVE IndexLeafFrom(_, _, _, _)
IndexLeafFrom(page, indexValue, i, rowIds) ==
    IF i > Len(page.cells) THEN [error |-> "", rowIds |-> rowIds]
    ELSE LET keyRecord == readRecordAsArray(readIndexLeafCell(page.cells[i]))
             comparisonResult ==
                 recordArraysSortingPredicate(keyRecord.record, indexValue)
             pushed == IF comparisonResult = 0
                       THEN Append(rowIds, Pop(keyRecord.record))
                       ELSE rowIds
         IN  IF keyRecord.error # ""
             THEN [error |-> keyRecord.error, rowIds |-> rowIds]
             ELSE IF comparisonResult > 0
             THEN [error |-> "", rowIds |-> pushed]
             ELSE IndexLeafFrom(page, indexValue, i + 1, pushed)

\* The interior loop with cellsToSearchFurther.unshift in place of push.
RECURSIVE IndexInteriorFromUnshift(_, _, _, _, _)
IndexInteriorFromUnshift(page, indexValue, i, rowIds, cellsToSearchFurther) ==
    IF i > Len(page.cells)
    THEN [error |-> "", rowIds |-> rowIds,
          cellsToSearchFurther |-> <<page.rightMostPointer>> \o cellsToSearchFurther]
    ELSE LET cell == readIndexInteriorCell(page.cells[i])
             keyRecord == readRecordAsArray(cell)
             comparisonResult ==
                 recordArraysSortingPredicate(keyRecord.record, indexValue)
             further == IF comparisonResult >= 0
                        THEN <<cell.leftChildPointer>> \o cellsToSearchFurther
                        ELSE cellsToSearchFurther
             pushed == IF comparisonResult = 0
                       THEN Append(rowIds, Pop(keyRecord.record))
                       ELSE rowIds
         IN  IF keyRecord.error # ""
             THEN [error |-> keyRecord.error, rowIds |-> rowIds,
                   cellsToSearchFurther |-> cellsToSearchFurther]
             ELSE IF comparisonResult > 0
             THEN [error |-> "", rowIds |-> pushed, cellsToSearchFurther |-> further]
             ELSE IndexInteriorFromUnshift(page, indexValue, i + 1, pushed, further)

\* for (const cell of cells) on an interior page, from cell i on, and the
\* rightmost pointer when the loop ends without a greater key.
RECURSIVE IndexInteriorFrom(_, _, _, _, _)
IndexInteriorFrom(page, indexValue, i, rowIds, cellsToSearchFurther) ==
    IF i > Len(page.cells)
    THEN [error |-> "", rowIds |-> rowIds,
          cellsToSearchFurther |-> Append(cellsToSearchFurther, page.rightMostPointer)]
    ELSE LET cell == readIndexInteriorCell(page.cells[i])
             keyRecord == readRecordAsArray(cell)
             comparisonResult ==
                 recordArraysSortingPredicate(keyRecord.record, indexValue)
             further == IF comparisonResult >= 0
                        THEN Append(cellsToSearchFurther, cell.leftChildPointer)
                        ELSE cellsToSearchFurther
             pushed == IF comparisonResult = 0
                       THEN Append(rowIds, Pop(keyRecord.record))
                       ELSE rowIds
         IN  IF keyRecord.error # ""
             THEN [error |-> keyRecord.error, rowIds |-> rowIds,
                   cellsToSearchFurther |-> cellsToSearchFurther]
             ELSE IF comparisonResult > 0
             THEN [error |-> "", rowIds |-> pushed, cellsToSearchFurther |-> further]
             ELSE IndexInteriorFrom(page, indexValue, i + 1, pushed, further)

GetRowIdsWithIndexValueStart(rootPage, indexValue) ==
    /\ arg' = [arg EXCEPT !.call = "getRowIdsWithIndexValue",
                          !.rootPage = rootPage, !.indexValue = indexValue]
    /\ IF readPageThrows(file, rootPage)
       THEN /\ pc' = "threw"
            /\ ret' = "Unsupported page type"
            /\ UNCHANGED <<pages, rows>>
       ELSE /\ pc' = "getRowIdsWithIndexValue"
            /\ pages' = <<rootPage>>
            /\ rows' = <<>>
            /\ ret' = <<>>
    /\ reads' = (rootPage :> 1)
    /\ UNCHANGED <<file, cache, descents, sqlVars>>

\* One iteration of while (pages.length): the page is shifted off the queue;
\* an interior page's children are read together and pushed behind it.
IndexVisitPage ==
    /\ pc = "getRowIdsWithIndexValue"
    /\ pages # <<>>
    /\ LET page == file[Head(pages)]
       IN  CASE page.type = LeafIndex ->
                    LET leaf == IndexLeafFrom(page, arg.indexValue, 1, rows)
                    IN  IF leaf.error # ""
                        THEN /\ pc' = "threw"
                             /\ ret' = leaf.error
                             /\ UNCHANGED <<pages, rows>>
                        ELSE /\ pages' = Tail(pages)
                             /\ rows' = leaf.rowIds
                             /\ UNCHANGED <<pc, ret>>
              [] page.type = InteriorIndex ->
                    LET interior == IndexInteriorFrom(page, arg.indexValue, 1, rows, <<>>)
                        pointers == interior.cellsToSearchFurther
                    IN  IF interior.error # ""
                        THEN /\ pc' = "threw"
                             /\ ret' = interior.error
                             /\ UNCHANGED <<pages, rows>>
                        ELSE IF \E k \in 1..Len(pointers) : readPageThrows(file, pointers[k])
                        THEN /\ pc' = "threw"
                             /\ ret' = "Unsupported page type"
                             /\ UNCHANGED <<pages, rows>>
                        ELSE /\ pages' = Tail(pages) \o pointers
                             /\ rows' = interior.rowIds
                             /\ UNCHANGED <<pc, ret>>
              [] OTHER ->
                    /\ pages' = Tail(pages)
                    /\ UNCHANGED <<pc, ret, rows>>
    /\ reads' =
           LET page == file[Head(pages)]
               interior == IndexInteriorFrom(page, arg.indexValue, 1, rows, <<>>)
           IN  IF page.type = InteriorIndex /\ interior.error = ""
               THEN ReadPages(reads, interior.cellsToSearchFurther)
               ELSE reads
    /\ UNCHANGED <<arg, file, cache, descents, done, sqlVars>>

IndexReturn ==
    /\ pc = "getRowIdsWithIndexValue"
    /\ pages = <<>>
    /\ pc' = "returned"
    /\ ret' = rows
    /\ UNCHANGED <<arg, file, pages, rows, cache, descents, done, reads, sqlVars>>

(***************************************************************************)
(* sql-executor.ts: executeSql and executeSelect.  selectNode is the       *)
(* SelectNode parseSql returns for the command: table, columns and where   *)
(* (on, columnName, value).  sqliteSchema is what getTablesAndIndexes      *)
(* returns, each table and index with what parseSql makes of its sql: the  *)
(* tableSchema of a table, the columns of an index.                        *)
(***************************************************************************)
NoWhere == [on |-> FALSE, columnName |-> "", value |-> Null]
NoSelect == [table |-> "", columns |-> <<>>, where |-> NoWhere]

Includes(array, element) == \E i \in 1..Len(array) : array[i] = element

\* tables.find(table => table.name === selectNode.table): its position, 0 if
\* there is none.
FindTable(tables, name) ==
    IF \E i \in 1..Len(tables) : tables[i].name = name
    THEN CHOOSE i \in 1..Len(tables) :
             /\ tables[i].name = name
             /\ \A j \in 1..(i - 1) : tables[j].name # name
    ELSE 0

getTableSchema(table) == table.tableSchema

\* Without indexes.filter(index => index.tableName === table.name).
findIndexForColumnOfAnyTable(indexes, table, column) ==
    LET matches == {i \in 1..Len(indexes) :
                       /\ indexes[i].columns # <<>>
                       /\ indexes[i].columns[1] = column}
    IN  IF matches = {} THEN 0
        ELSE CHOOSE i \in matches : \A j \in matches : i <= j

\* findIndexForTableAndColumn: the position of the first index of the table
\* whose first column is the column, 0 if there is none.
findIndexForTableAndColumn(indexes, table, column) ==
    LET matches == {i \in 1..Len(indexes) :
                       /\ indexes[i].tableName = table.name
                       /\ indexes[i].columns # <<>>
                       /\ indexes[i].columns[1] = column}
    IN  IF matches = {} THEN 0
        ELSE CHOOSE i \in matches : \A j \in matches : i <= j

\* Without columnsToRetrieve.add(selectNode.where.columnName).
ColumnsToRetrieveWithoutWhere(node) ==
    IF Includes(node.columns, "count(*)") THEN {}
    ELSE {node.columns[i] : i \in 1..Len(node.columns)}

\* The Set columnsToRetrieve: empty for the count, else the columns; and
\* the where column.
ColumnsToRetrieve(node) ==
    (IF Includes(node.columns, "count(*)") THEN {}
     ELSE {node.columns[i] : i \in 1..Len(node.columns)})
    \cup (IF node.where.on THEN {node.where.columnName} ELSE {})

SelectTable == sqliteSchema.tables[FindTable(sqliteSchema.tables, selectNode.table)]

\* executeSql on a parsed SELECT: executeSelect runs up to the end of
\* getTablesAndIndexes.
ExecuteSql(node) ==
    /\ selectNode' = node
    /\ stdout' = <<>>
    /\ pc' = "executeSelect"
    /\ arg' = ArgNone
    /\ ret' = <<>>
    /\ reads' = <<>>
    /\ UNCHANGED <<file, pages, rows, cache, descents, sqliteSchema, mainVars>>

SelectThrows(message) ==
    /\ pc' = "threw"
    /\ ret' = message
    /\ UNCHANGED <<arg, file, pages, rows, cache, descents, reads, sqlVars>>

\* executeSelect from the table lookup to the call of the walk it chooses.
ExecuteSelect ==
    /\ pc = "executeSelect"
    /\ IF FindTable(sqliteSchema.tables, selectNode.table) = 0
       THEN SelectThrows("Table not found")
       ELSE IF /\ Includes(selectNode.columns, "count(*)")
               /\ Len(selectNode.columns) # 1
       THEN SelectThrows("Cannot use count(*) with other columns")
       ELSE LET table == SelectTable
                where == selectNode.where
                tableSchema == getTableSchema(table)
                allColumnNames == {tableSchema[i].name : i \in 1..Len(tableSchema)}
                columnsToRetrieve == ColumnsToRetrieve(selectNode)
                index == IF where.on
                         THEN findIndexForTableAndColumn(
                                  sqliteSchema.indexes, table, where.columnName)
                         ELSE 0
            IN  IF \E column \in columnsToRetrieve : column \notin allColumnNames
                THEN SelectThrows("Column not found")
                ELSE IF where.on /\ index # 0
                THEN GetRowIdsWithIndexValueStart(
                         sqliteSchema.indexes[index].rootPage, <<where.value>>)
                ELSE GetAllTableRowsStart(
                         table.rootPage, tableSchema, columnsToRetrieve, where)
    /\ UNCHANGED done

\* rows = await getRowsByRowIds(database, table, tableSchema,
\* columnsToRetrieve, rowsIds), once getRowIdsWithIndexValue has returned.
SelectLooksUp ==
    /\ pc = "returned"
    /\ arg.call = "getRowIdsWithIndexValue"
    /\ GetRowsByRowIdsStart(SelectTable.rootPage, getTableSchema(SelectTable),
                            ColumnsToRetrieve(selectNode),
                            [i \in 1..Len(ret) |-> ret[i].num])
    /\ UNCHANGED done

\* row[column], undefined (which join writes like null) without the column.
Field(row, column) ==
    IF column \in DOMAIN row.columns THEN row.columns[column] ELSE Null

\* The rows are there: console.log of their number, or of one line per row,
\* or nothing for no rows.
SelectPrints ==
    /\ pc = "returned"
    /\ arg.call \in {"getAllTableRows", "getRowsByRowIds"}
    /\ stdout' =
           IF Includes(selectNode.columns, "count(*)")
           THEN Append(stdout, <<Num(Len(ret))>>)
           ELSE stdout \o [i \in 1..Len(ret) |->
                              [j \in 1..Len(selectNode.columns) |->
                                  Field(ret[i], selectNode.columns[j])]]
    /\ pc' = "resolved"
    /\ UNCHANGED <<arg, ret, file, pages, rows, cache, descents, done, reads,
                   sqliteSchema, selectNode, mainVars>>

(***************************************************************************)
(* Table B-trees of the file format: the row-ids strictly increase along   *)
(* the leaves, and every interior cell's key is at least the largest       *)
(* row-id of its left subtree and below every row-id to its right.  The    *)
(* stored row-ids are 1, 101, 201, ... (MaxRowId of them, as the varints   *)
(* SQLite writes) and 2^31, the first one that does not fit 31 bits.       *)
(***************************************************************************)
NumIds == MaxRowId + 1

MinimalVarint(value) ==
    IF value < 128 THEN <<value>> ELSE <<128 + (value \div 128), value % 128>>

StoredRowId(i) ==
    IF i <= MaxRowId THEN MinimalVarint(100 * i - 99) ELSE <<136, 128, 128, 128, 0>>

\* The record of the row with the i-th row-id, for the columns (id, c).
TableRecord(i, variant) ==
    CASE variant = "null key" ->
            [serialTypeCodes |-> <<0, 15>>, body |-> <<97 + (i % 2)>>]
      [] variant = "stored key" ->
            [serialTypeCodes |-> <<1, 1>>, body |-> <<77, i>>]
      [] variant = "wide integer" ->
            IF i = 2
            THEN [serialTypeCodes |-> <<0, 5>>, body |-> <<0, 1, 0, 0, 0, 0>>]
            ELSE IF i = 1
            THEN [serialTypeCodes |-> <<5, 1>>, body |-> <<0, 1, 0, 0, 0, 0, i>>]
            ELSE [serialTypeCodes |-> <<0, 1>>, body |-> <<i>>]
      [] variant = "text key" ->
            [serialTypeCodes |-> <<15, 1>>, body |-> <<107, i>>]
      [] variant = "three-byte integer" ->
            IF i = 1
            THEN [serialTypeCodes |-> <<0, 3>>, body |-> <<128, 0, 0>>]
            ELSE [serialTypeCodes |-> <<0, 1>>, body |-> <<i>>]
      [] OTHER ->
            [serialTypeCodes |-> <<0, 12>>, body |-> <<>>]

RecordVariants == {"null key", "stored key", "wide integer", "blob"}

TableLeafCell(i, variant) ==
    [leftChildPointer |-> 0, varint |-> StoredRowId(i),
     serialTypeCodes |-> TableRecord(i, variant).serialTypeCodes,
     body |-> TableRecord(i, variant).body]

TableInteriorCell(child, key) ==
    [leftChildPointer |-> child, varint |-> StoredRowId(key),
     serialTypeCodes |-> <<>>, body |-> <<>>]

RECURSIVE SortedSeq(_)
SortedSeq(S) ==
    IF S = {} THEN <<>>
    ELSE LET least == CHOOSE x \in S : \A y \in S : x <= y
         IN  <<least>> \o SortedSeq(S \ {least})

\* The ways to cut a sequence into consecutive non-empty chunks.
RECURSIVE Splits(_)
Splits(s) ==
    IF s = <<>> THEN {<<>>}
    ELSE UNION {{<<SubSeq(s, 1, k)>> \o rest : rest \in Splits(SubSeq(s, k + 1, Len(s)))}
                : k \in 1..Len(s)}

\* The sequences whose i-th element is drawn from the i-th set.
RECURSIVE Product(_)
Product(sets) ==
    IF sets = <<>> THEN {<<>>}
    ELSE {<<h>> \o t : h \in Head(sets), t \in Product(Tail(sets))}

\* The page number of the j-th child of page p.
ChildPage(p, j) == p * (NumIds + 1) + j - 1

RECURSIVE Merge(_)
Merge(maps) == IF maps = <<>> THEN <<>> ELSE Head(maps) @@ Merge(Tail(maps))

\* The subtrees of at most the given depth, rooted at page p, that hold the
\* rows ids (a strictly increasing sequence): each a map of its pages.
RECURSIVE TableTrees(_, _, _, _)
TableTrees(ids, depth, p, variant) ==
    {p :> [type |-> LeafTable,
           cells |-> [i \in 1..Len(ids) |-> TableLeafCell(ids[i], variant)],
           rightMostPointer |-> 0]}
    \cup
    IF depth <= 1 THEN {}
    ELSE UNION {
        LET m == Len(chunks)
            keySets == [j \in 1..(m - 1) |->
                           chunks[j][Len(chunks[j])]..(chunks[j + 1][1] - 1)]
            subtrees == [j \in 1..m |->
                            TableTrees(chunks[j], depth - 1, ChildPage(p, j), variant)]
        IN  {(p :> [type |-> InteriorTable,
                    cells |-> [j \in 1..(m - 1) |->
                                  TableInteriorCell(ChildPage(p, j), keys[j])],
                    rightMostPointer |-> ChildPage(p, m)])
                 @@ Merge(children)
             : keys \in Product(keySets), children \in Product(subtrees)}
        : chunks \in Splits(ids) \ {<<>>}}

TableRoot == 2

TableSchemas ==
    {<<[name |-> "id", isPrimaryKey |-> TRUE], [name |-> "c", isPrimaryKey |-> FALSE]>>,
     <<[name |-> "id", isPrimaryKey |-> FALSE], [name |-> "c", isPrimaryKey |-> FALSE]>>}

TableFiles ==
    UNION {TableTrees(SortedSeq(S), MaxDepth, TableRoot, variant)
           : S \in SUBSET (1..NumIds), variant \in RecordVariants}

\* The row-ids looked up: each stored row-id as the cell readers decode it,
\* and one that no row has.
LookupRowIds == {readVarint(StoredRowId(i)).value : i \in 1..NumIds} \cup {150}

(***************************************************************************)
(* The table walks on one database: a full scan, then a point lookup.      *)
(***************************************************************************)
InitTable ==
    /\ file \in TableFiles
    /\ arg = ArgNone
    /\ pc = "idle"
    /\ ret = <<>>
    /\ pages = <<>>
    /\ rows = <<>>
    /\ cache = <<>>
    /\ descents = <<>>
    /\ done = <<>>
    /\ reads = <<>>
    /\ NoSql

CallGetAllTableRows ==
    /\ pc = "idle"
    /\ \E tableSchema \in TableSchemas, columnsToRetrieve \in {{}, {"c"}, {"id", "c"}} :
           GetAllTableRowsStart(TableRoot, tableSchema, columnsToRetrieve, [on |-> FALSE])
    /\ UNCHANGED done

CallGetRowsByRowIds ==
    /\ pc \in {"returned", "threw"}
    /\ arg.call = "getAllTableRows"
    /\ \E rowId \in LookupRowIds :
           GetRowsByRowIdsStart(arg.rootPage, arg.tableSchema, arg.columnsToRetrieve,
                                <<rowId>>)
    /\ done' = Finish(arg.call)

NextTable ==
    \/ CallGetAllTableRows
    \/ ScanPage
    \/ ScanReturn
    \/ CallGetRowsByRowIds
    \/ \E pageNumber \in DOMAIN cache : PageReadSettles(pageNumber)
    \/ \E i \in 1..Len(descents) : DescentResumes(i)
    \/ LookupThrows
    \/ LookupReturns

SpecTable == InitTable /\ [][NextTable]_vars

(***************************************************************************)
(* The index B-trees of the model: entries (key, row-id) with keys non-    *)
(* decreasing under compareSqliteValues and row-ids 1, 2, ... in order,    *)
(* laid out as one leaf or with some entries as the cells of interior      *)
(* pages, the entries between two of them in the subtree between.          *)
(***************************************************************************)
IndexKeys == <<Null, Num(1), Num(2), Str(<<97>>)>>

\* A value as a record column: its serial type code and its bytes.
KeyColumn(value) ==
    IF value.kind = "null" THEN [code |-> 0, bytes |-> <<>>]
    ELSE IF value.kind = "string"
    THEN [code |-> 13 + 2 * Len(value.str), bytes |-> value.str]
    ELSE IF value.num = 1 THEN [code |-> 9, bytes |-> <<>>]
    ELSE [code |-> 1, bytes |-> <<value.num>>]

IndexVariants == {"plain", "wide row-id", "three-byte key"}

\* The key column of an entry; in the three-byte variant the least key is
\* the integer -8388608 in three bytes in place of NULL.
KeyColumnOf(value, variant) ==
    IF variant = "three-byte key" /\ value.kind = "null"
    THEN [code |-> 3, bytes |-> <<128, 0, 0>>]
    ELSE KeyColumn(value)

\* The trailing row-id column; in the wide variant entry 2 stores it in
\* six bytes.
RowIdColumn(rowId, variant) ==
    IF variant = "wide row-id" /\ rowId = 2
    THEN [code |-> 5, bytes |-> <<0, 0, 0, 0, 0, rowId>>]
    ELSE [code |-> 1, bytes |-> <<rowId>>]

\* An entry is its two columns, the key and the row-id.
IndexCell(leftChildPointer, entry) ==
    [leftChildPointer |-> leftChildPointer,
     varint |-> <<>>,
     serialTypeCodes |-> <<entry.key.code, entry.rowId.code>>,
     body |-> entry.key.bytes \o entry.rowId.bytes]

\* The sequences of entries: entry i has row-id i.
IndexEntries(variant) ==
    UNION {{[i \in 1..n |-> [key |-> KeyColumnOf(IndexKeys[k[i]], variant),
                             rowId |-> RowIdColumn(i, variant)]]
            : k \in {k \in [1..n -> 1..Len(IndexKeys)] :
                        \A i \in 1..(n - 1) : k[i] <= k[i + 1]}}
           : n \in 0..MaxEntries}

\* The ways to pick the entries that become cells of an interior page: each
\* leaves at least one entry before, between and after.
Separators(n) ==
    {s \in SUBSET (1..n) :
        /\ s # {}
        /\ 1 \notin s /\ n \notin s
        /\ \A i \in s : i + 1 \notin s}

RECURSIVE IndexTrees(_, _, _)
IndexTrees(entries, depth, p) ==
    {p :> [type |-> LeafIndex,
           cells |-> [i \in 1..Len(entries) |-> IndexCell(0, entries[i])],
           rightMostPointer |-> 0]}
    \cup
    IF depth <= 1 THEN {}
    ELSE UNION {
        LET s == SortedSeq(separators)
            k == Len(s)
            first(j) == IF j = 1 THEN 1 ELSE s[j - 1] + 1
            last(j) == IF j = k + 1 THEN Len(entries) ELSE s[j] - 1
            subtrees == [j \in 1..(k + 1) |->
                            IndexTrees(SubSeq(entries, first(j), last(j)),
                                       depth - 1, ChildPage(p, j))]
        IN  {(p :> [type |-> InteriorIndex,
                    cells |-> [j \in 1..k |->
                                  IndexCell(ChildPage(p, j), entries[s[j]])],
                    rightMostPointer |-> ChildPage(p, k + 1)])
                 @@ Merge(children)
             : children \in Product(subtrees)}
        : separators \in Separators(Len(entries))}

IndexRoot == 3

IndexFiles ==
    UNION {IndexTrees(entries, MaxDepth, IndexRoot)
           : entries \in UNION {IndexEntries(variant) : variant \in IndexVariants}}

\* The key prefixes searched: one column (each key of the model and one no
\* entry has), key and row-id, and the empty prefix.
IndexValues ==
    {<<>>} \cup {<<IndexKeys[k]>> : k \in 1..Len(IndexKeys)} \cup {<<Num(3)>>}
    \cup {<<Num(2), Num(rowId)>> : rowId \in 2..3}

(***************************************************************************)
(* The index walk on one database.                                         *)
(***************************************************************************)
InitIndex ==
    /\ file \in IndexFiles
    /\ arg = ArgNone
    /\ pc = "idle"
    /\ ret = <<>>
    /\ pages = <<>>
    /\ rows = <<>>
    /\ cache = <<>>
    /\ descents = <<>>
    /\ done = <<>>
    /\ reads = <<>>
    /\ NoSql

CallGetRowIdsWithIndexValue ==
    /\ pc = "idle"
    /\ \E indexValue \in IndexValues :
           GetRowIdsWithIndexValueStart(IndexRoot, indexValue)
    /\ UNCHANGED done

NextIndex ==
    \/ CallGetRowIdsWithIndexValue
    \/ IndexVisitPage
    \/ IndexReturn

SpecIndex == InitIndex /\ [][NextIndex]_vars

(***************************************************************************)
(* The databases of the statements: one table t (id, c) of at most two     *)
(* levels, empty or with the rows of the first MaxRowId row-ids, with or   *)
(* without the row of row-id 2^31, and with or without an index on t(c)    *)
(* that holds one entry (c, row-id) per row.                               *)
(***************************************************************************)
SelectRowSets == {{}, 1..MaxRowId, 1..NumIds}

\* The column c of the record of row i: its serial type code and bytes.
StoredC(i, variant) ==
    LET record == TableRecord(i, variant)
        idSize == serialCodeToDatabaseType(record.serialTypeCodes[1]).size
    IN  [code |-> record.serialTypeCodes[2],
         bytes |-> advanceDataView(record.body, idSize)]

\* The place of row i's value of c among the values of c of the variant.
RankOfC(i, variant) ==
    CASE variant = "null key" -> i % 2
      [] variant = "stored key" -> i
      [] variant = "wide integer" -> IF i = 2 THEN NumIds + 1 ELSE i
      [] variant = "three-byte integer" -> IF i = 1 THEN 0 ELSE i
      [] OTHER -> 0

\* The row-id of row i as a record column.
StoredRowIdColumn(i) ==
    IF i > MaxRowId THEN [code |-> 5, bytes |-> <<0, 0, 128, 0, 0, 0>>]
    ELSE IF 100 * i - 99 < 128 THEN [code |-> 1, bytes |-> <<100 * i - 99>>]
    ELSE [code |-> 2, bytes |-> <<(100 * i - 99) \div 256, (100 * i - 99) % 256>>]

\* The rows of S in the order of (c, row-id).
RECURSIVE SortedByC(_, _)
SortedByC(S, variant) ==
    IF S = {} THEN <<>>
    ELSE LET least == CHOOSE x \in S : \A y \in S :
                          \/ RankOfC(x, variant) < RankOfC(y, variant)
                          \/ RankOfC(x, variant) = RankOfC(y, variant) /\ x <= y
         IN  <<least>> \o SortedByC(S \ {least}, variant)

EntriesOf(S, variant) ==
    [n \in 1..Cardinality(S) |->
        [key |-> StoredC(SortedByC(S, variant)[n], variant),
         rowId |-> StoredRowIdColumn(SortedByC(S, variant)[n])]]

\* A database: the file and what getTablesAndIndexes finds in it.
Databases(rowSets, variants) ==
    UNION {
        {[file |-> tableTree,
          sqliteSchema |->
              [tables |-> <<[name |-> "t", rootPage |-> TableRoot,
                             tableSchema |-> tableSchema]>>,
               indexes |-> <<>>]]
         : tableTree \in TableTrees(SortedSeq(S), 2, TableRoot, variant)}
        \cup
        {[file |-> tableTree @@ indexTree,
          sqliteSchema |->
              [tables |-> <<[name |-> "t", rootPage |-> TableRoot,
                             tableSchema |-> tableSchema]>>,
               indexes |-> <<[tableName |-> "t", rootPage |-> IndexRoot,
                              columns |-> <<"c">>]>>]]
         : tableTree \in TableTrees(SortedSeq(S), 2, TableRoot, variant),
           indexTree \in IndexTrees(EntriesOf(S, variant), 2, IndexRoot)}
        : S \in rowSets, variant \in variants,
          tableSchema \in TableSchemas}

\* The database with a second table u (c), empty, and its index on u(c),
\* which the schema table lists before the indexes of t.
OtherTableRoot == 4
OtherIndexRoot == 5

WithOtherTable(database) ==
    [file |-> database.file
                  @@ (OtherTableRoot :> [type |-> LeafTable, cells |-> <<>>,
                                         rightMostPointer |-> 0])
                  @@ (OtherIndexRoot :> [type |-> LeafIndex, cells |-> <<>>,
                                         rightMostPointer |-> 0]),
     sqliteSchema |->
         [tables |-> database.sqliteSchema.tables
                         \o <<[name |-> "u", rootPage |-> OtherTableRoot,
                               tableSchema |-> <<[name |-> "c", isPrimaryKey |-> FALSE]>>]>>,
          indexes |-> <<[tableName |-> "u", rootPage |-> OtherIndexRoot,
                         columns |-> <<"c">>]>>
                          \o database.sqliteSchema.indexes]]

SelectDatabases ==
    Databases(SelectRowSets, RecordVariants)
        \cup {WithOtherTable(database) :
                 database \in Databases(SelectRowSets, RecordVariants)}

Where(columnName, value) == [on |-> TRUE, columnName |-> columnName, value |-> value]

SelectNodes ==
    {[table |-> "t", columns |-> <<"count(*)">>, where |-> NoWhere],
     [table |-> "t", columns |-> <<"c">>, where |-> NoWhere],
     [table |-> "t", columns |-> <<"id", "c">>, where |-> NoWhere],
     [table |-> "t", columns |-> <<"count(*)", "c">>, where |-> NoWhere],
     [table |-> "u", columns |-> <<"c">>, where |-> NoWhere],
     [table |-> "t", columns |-> <<"id">>, where |-> Where("c", Num(1))],
     [table |-> "t", columns |-> <<"count(*)">>, where |-> Where("c", Str(<<98>>))],
     [table |-> "t", columns |-> <<"c">>, where |-> Where("id", Num(101))],
     [table |-> "t", columns |-> <<"c">>, where |-> Where("x", Num(3))],
     [table |-> "t", columns |-> <<"c", "x">>, where |-> NoWhere]}

(***************************************************************************)
(* Two statements, one after the other, on one database.                   *)
(***************************************************************************)
InitSelect ==
    /\ \E database \in SelectDatabases :
           /\ file = database.file
           /\ sqliteSchema = database.sqliteSchema
    /\ selectNode = NoSelect
    /\ stdout = <<>>
    /\ NoMain
    /\ arg = ArgNone
    /\ pc = "idle"
    /\ ret = <<>>
    /\ pages = <<>>
    /\ rows = <<>>
    /\ cache = <<>>
    /\ descents = <<>>
    /\ done = <<>>
    /\ reads = <<>>

Statement == [call |-> selectNode, outcome |-> pc, result |-> stdout]

CallExecuteSql ==
    /\ \/ pc = "idle" /\ UNCHANGED done
       \/ pc \in {"resolved", "threw"} /\ done = <<>> /\ done' = <<Statement>>
    /\ \E node \in SelectNodes : ExecuteSql(node)

NextSelect ==
    \/ CallExecuteSql
    \/ ExecuteSelect
    \/ ScanPage
    \/ ScanReturn
    \/ IndexVisitPage
    \/ IndexReturn
    \/ SelectLooksUp
    \/ \E pageNumber \in DOMAIN cache : PageReadSettles(pageNumber)
    \/ \E i \in 1..Len(descents) : DescentResumes(i)
    \/ LookupThrows
    \/ LookupReturns
    \/ SelectPrints

SpecSelect == InitSelect /\ [][NextSelect]_vars

(***************************************************************************)
(* sql-scanner.ts: scanSql.  A source is a sequence of characters, each a  *)
(* string of length one; current and start count characters from 0 as the  *)
(* code does, so that source.charAt(current) is source[current + 1].       *)
(* A token is (type, lexeme).  console.error of an unexpected character    *)
(* leaves the tokens alone.                                                *)
(***************************************************************************)
LowercaseLetters == <<"a", "b", "c", "d", "e", "f", "g", "h", "i", "j", "k", "l", "m", "n", "o", "p", "q", "r", "s", "t", "u", "v", "w", "x", "y", "z">>
UppercaseLetters == <<"A", "B", "C", "D", "E", "F", "G", "H", "I", "J", "K", "L", "M", "N", "O", "P", "Q", "R", "S", "T", "U", "V", "W", "X", "Y", "Z">>

isAlpha(c) ==
    \/ \E i \in 1..Len(LowercaseLetters) : LowercaseLetters[i] = c
    \/ \E i \in 1..Len(UppercaseLetters) : UppercaseLetters[i] = c
    \/ c = "_"

isNumeric(c) == c \in {"0", "1", "2", "3", "4", "5", "6", "7", "8", "9"}

toLowerCase(text) ==
    [n \in 1..Len(text) |->
        IF \E i \in 1..Len(UppercaseLetters) : UppercaseLetters[i] = text[n]
        THEN LowercaseLetters[CHOOSE i \in 1..Len(UppercaseLetters) :
                                  UppercaseLetters[i] = text[n]]
        ELSE text[n]]

keywordsMap ==
    {[text |-> <<"c", "r", "e", "a", "t", "e">>, type |-> "create"],
     [text |-> <<"t", "a", "b", "l", "e">>, type |-> "table"],
     [text |-> <<"i", "n", "d", "e", "x">>, type |-> "index"],
     [text |-> <<"o", "n">>, type |-> "on"],
     [text |-> <<"s", "e", "l", "e", "c", "t">>, type |-> "select"],
     [text |-> <<"f", "r", "o", "m">>, type |-> "from"],
     [text |-> <<"w", "h", "e", "r", "e">>, type |-> "where"],
     [text |-> <<"p", "r", "i", "m", "a", "r", "y">>, type |-> "primary"],
     [text |-> <<"k", "e", "y">>, type |-> "key"]}

\* tokens.push(new Token(type, lexeme || ""))
addToken(tokens, type, lexeme) == Append(tokens, [type |-> type, lexeme |-> lexeme])

isAtEnd(source, current) == current >= Len(source)

\* '\0' at the end of the source
peek(source, current) ==
    IF isAtEnd(source, current) THEN "\\0" ELSE source[current + 1]

\* while (isAlpha(peek())) advance(), and the same with isNumeric: current
\* after the loop.
RECURSIVE AdvanceWhile(_, _, _)
AdvanceWhile(source, current, alpha) ==
    IF (IF alpha THEN isAlpha(peek(source, current))
        ELSE isNumeric(peek(source, current)))
    THEN AdvanceWhile(source, current + 1, alpha)
    ELSE current

\* while (!isAtEnd() && peek() !== quote) advance(): current after the loop.
RECURSIVE AdvanceToQuote(_, _, _)
AdvanceToQuote(source, current, quote) ==
    IF ~isAtEnd(source, current) /\ peek(source, current) # quote
    THEN AdvanceToQuote(source, current + 1, quote)
    ELSE current

\* source.substring(from, to)
substring(source, from, to) ==
    SubSeq(source, Min(from, to) + 1, Min(IF from < to THEN to ELSE from, Len(source)))

identifier(source, start, current, tokens) ==
    LET end == AdvanceWhile(source, current, TRUE)
        text == substring(source, start, end)
        keywords == {k \in keywordsMap : k.text = toLowerCase(text)}
    IN  [current |-> end,
         tokens |-> IF keywords # {}
                    THEN addToken(tokens, (CHOOSE k \in keywords : TRUE).type, <<>>)
                    ELSE addToken(tokens, "identifier", text),
         error |-> ""]

number(source, start, current, tokens) ==
    LET end == AdvanceWhile(source, current, FALSE)
    IN  [current |-> end,
         tokens |-> addToken(tokens, "number", substring(source, start, end)),
         error |-> ""]

\* string(isDoubleQuote): the first advance() takes the character after the
\* opening quote whatever it is.
string(source, start, current, tokens, quote) ==
    LET end == AdvanceToQuote(source, current + 1, quote)
    IN  IF isAtEnd(source, end)
        THEN [current |-> end, tokens |-> tokens, error |-> "Unterminated string"]
        ELSE [current |-> end + 1,
              tokens |-> addToken(tokens, "string", substring(source, start + 1, end)),
              error |-> ""]

scanToken(source, start, tokens) ==
    LET c == source[start + 1]
        current == start + 1
        same == [current |-> current, tokens |-> tokens, error |-> ""]
    IN  CASE c = "(" -> [same EXCEPT !.tokens = addToken(tokens, "left_paren", <<>>)]
          [] c = ")" -> [same EXCEPT !.tokens = addToken(tokens, "right_paren", <<>>)]
          [] c = "," -> [same EXCEPT !.tokens = addToken(tokens, "comma", <<>>)]
          [] c = "=" -> [same EXCEPT !.tokens = addToken(tokens, "equal", <<>>)]
          [] c = "*" -> [same EXCEPT !.tokens = addToken(tokens, "star", <<>>)]
          [] c \in {" ", "\n", "\t", "\r"} -> same
          [] OTHER ->
                IF isAlpha(c) THEN identifier(source, start, current, tokens)
                ELSE IF isNumeric(c) THEN number(source, start, current, tokens)
                ELSE IF c = "'" THEN string(source, start, current, tokens, "'")
                ELSE IF c = "\"" THEN string(source, start, current, tokens, "\"")
                ELSE same

\* while (!isAtEnd()) { start = current; scanToken() }
RECURSIVE ScanLoop(_, _, _)
ScanLoop(source, current, tokens) ==
    IF isAtEnd(source, current) THEN [tokens |-> tokens, error |-> ""]
    ELSE LET scanned == scanToken(source, current, tokens)
         IN  IF scanned.error # "" THEN [tokens |-> tokens, error |-> scanned.error]
             ELSE ScanLoop(source, scanned.current, scanned.tokens)

scanSql(source) ==
    LET scanned == ScanLoop(source, 0, <<>>)
    IN  IF scanned.error # "" THEN Thrown(scanned.error)
        ELSE Returned(addToken(scanned.tokens, "eof", <<>>))

(***************************************************************************)
(* main.ts: one run of the program.  args holds the path of the database   *)
(* file, which there is a file at or not, and the command: ".dbinfo",      *)
(* ".tables" or "sql" for a statement that parseSql makes a SELECT of.     *)
(* sqliteSchema.error is what getTablesAndIndexes throws on the file, ""   *)
(* if it returns: 'Unsupported page type' of readPage for the first page,  *)
(* 'sqlite_schema table is invalid' for a row of type table or index whose *)
(* tbl_name, rootpage or sql is not of the type it expects, as the NULL    *)
(* sql in the row of an index that SQLite made for a UNIQUE constraint.    *)
(* pc = "rejected" is the end of a run whose top-level await threw.        *)
(***************************************************************************)
PageSize == 4096

\* openDatabase: open, then the reads of the two headers.
OpenDatabase ==
    /\ pc = "main"
    /\ IF args.databaseFilePath = "missing"
       THEN /\ pc' = "rejected"
            /\ ret' = "ENOENT"
            /\ UNCHANGED fileHandle
       ELSE /\ pc' = args.command
            /\ fileHandle' = "open"
            /\ UNCHANGED ret
    /\ UNCHANGED <<arg, file, pages, rows, cache, descents, done, reads,
                   sqliteSchema, selectNode, stdout, args, stderr>>

\* The .dbinfo branch up to its call of closeDatabase.
DbInfo ==
    /\ pc = ".dbinfo"
    /\ stdout' = <<<<Num(PageSize)>>,
                   <<Num(Len(sqliteSchema.tables) + Len(sqliteSchema.indexes))>>>>
    /\ pc' = "closeDatabase"
    /\ UNCHANGED <<arg, ret, file, pages, rows, cache, descents, done, reads,
                   sqliteSchema, selectNode, mainVars>>

\* The .tables branch up to its call of closeDatabase.
Tables ==
    /\ pc = ".tables"
    /\ IF sqliteSchema.error # ""
       THEN /\ pc' = "rejected"
            /\ ret' = sqliteSchema.error
            /\ UNCHANGED stdout
       ELSE /\ pc' = "closeDatabase"
            /\ stdout' = <<[i \in 1..Len(sqliteSchema.tables) |->
                               sqliteSchema.tables[i].name]>>
            /\ UNCHANGED ret
    /\ UNCHANGED <<arg, file, pages, rows, cache, descents, done, reads,
                   sqliteSchema, selectNode, mainVars>>

\* try { await executeSql(database, command) }: executeSql up to the end of
\* getTablesAndIndexes in executeSelect.
MainExecuteSql(node) ==
    /\ pc = "sql"
    /\ IF sqliteSchema.error # ""
       THEN /\ pc' = "threw"
            /\ ret' = sqliteSchema.error
            /\ selectNode' = node
            /\ UNCHANGED <<arg, file, pages, rows, cache, descents, reads,
                           sqliteSchema, stdout, mainVars>>
       ELSE ExecuteSql(node)
    /\ UNCHANGED done

\* catch (error) { } without the console.error.
CatchSilently ==
    /\ pc = "threw"
    /\ pc' = "closeDatabase"
    /\ UNCHANGED <<arg, ret, dbVars>>

\* catch (error) { console.error(error?.message || 'Unknown error') }
Catch ==
    /\ pc = "threw"
    /\ stderr' = Append(stderr, ret)
    /\ pc' = "closeDatabase"
    /\ UNCHANGED <<arg, ret, file, pages, rows, cache, descents, done, reads,
                   sqliteSchema, selectNode, stdout, args, fileHandle>>

\* executeSql resolved: main goes on to closeDatabase.
Resolved ==
    /\ pc = "resolved"
    /\ pc' = "closeDatabase"
    /\ UNCHANGED <<arg, ret, dbVars>>

\* await closeDatabase(database), the last statement of each branch.
closeDatabase ==
    /\ pc = "closeDatabase"
    /\ fileHandle' = "closed"
    /\ pc' = "exited"
    /\ UNCHANGED <<arg, ret, file, pages, rows, cache, descents, done, reads,
                   sqliteSchema, selectNode, stdout, args, stderr>>

\* The file with page p past its end or without a page type that
\* SupportedPageTypes has: readPage of p throws.
Unreadable(f, p) == [q \in DOMAIN f \ {p} |-> f[q]]

MainRowSets == {{}, 1..MaxRowId}

\* The databases of a run: those of the statements, whole or with one page
\* that readPage throws on,
\* with a schema table that getTablesAndIndexes reads or throws on.
MainDatabases ==
    UNION {
        {[file |-> f,
          sqliteSchema |-> [tables |-> database.sqliteSchema.tables,
                            indexes |-> database.sqliteSchema.indexes,
                            error |-> error]]
         : f \in {database.file}
                    \cup {Unreadable(database.file, p) : p \in DOMAIN database.file},
           error \in {"", "sqlite_schema table is invalid"}}
        : database \in Databases(MainRowSets, {"null key", "wide integer"})}

MainArgs ==
    [databaseFilePath : {"missing", "sample.db"},
     command : {".dbinfo", ".tables", "sql"}]

InitMain ==
    /\ \E database \in MainDatabases :
           /\ file = database.file
           /\ sqliteSchema = database.sqliteSchema
    /\ args \in MainArgs
    /\ fileHandle = "none"
    /\ stderr = <<>>
    /\ selectNode = NoSelect
    /\ stdout = <<>>
    /\ arg = ArgNone
    /\ pc = "main"
    /\ ret = <<>>
    /\ pages = <<>>
    /\ rows = <<>>
    /\ cache = <<>>
    /\ descents = <<>>
    /\ done = <<>>
    /\ reads = <<>>

NextMain ==
    \/ OpenDatabase
    \/ DbInfo
    \/ Tables
    \/ \E node \in SelectNodes : MainExecuteSql(node)
    \/ ExecuteSelect
    \/ ScanPage
    \/ ScanReturn
    \/ IndexVisitPage
    \/ IndexReturn
    \/ SelectLooksUp
    \/ \E pageNumber \in DOMAIN cache : PageReadSettles(pageNumber)
    \/ \E i \in 1..Len(descents) : DescentResumes(i)
    \/ LookupThrows
    \/ LookupReturns
    \/ SelectPrints
    \/ Catch
    \/ Resolved
    \/ closeDatabase

SpecMain == InitMain /\ [][NextMain]_vars

(***************************************************************************)
(* A batch of point lookups on one table of at most two levels.            *)
(***************************************************************************)
LookupFiles ==
    UNION {TableTrees(SortedSeq(S), 2, TableRoot, variant)
           : S \in SelectRowSets, variant \in RecordVariants}

\* The row-ids of a batch: two that rows have and one that no row has.
BatchRowIds == {readVarint(StoredRowId(1)).value, readVarint(StoredRowId(2)).value, 150}

Batches == UNION {[1..n -> BatchRowIds] : n \in 0..MaxBatch}

InitLookup ==
    /\ file \in LookupFiles
    /\ arg = ArgNone
    /\ pc = "idle"
    /\ ret = <<>>
    /\ pages = <<>>
    /\ rows = <<>>
    /\ cache = <<>>
    /\ descents = <<>>
    /\ done = <<>>
    /\ reads = <<>>
    /\ NoSql

CallGetRowsByRowIdsBatch ==
    /\ pc = "idle"
    /\ \E rowIds \in Batches, tableSchema \in TableSchemas :
           GetRowsByRowIdsStart(TableRoot, tableSchema, {"id", "c"}, rowIds)
    /\ UNCHANGED done

NextLookup ==
    \/ CallGetRowsByRowIdsBatch
    \/ \E pageNumber \in DOMAIN cache : PageReadSettles(pageNumber)
    \/ \E i \in 1..Len(descents) : DescentResumes(i)
    \/ LookupThrows
    \/ LookupReturns

SpecLookup == InitLookup /\ [][NextLookup]_vars

(***************************************************************************)
(* Inputs of the codec and ordering checks.                                *)
(***************************************************************************)
ContBytes == {128, 136, 255}
VarintTails == {<<>>, <<0>>, <<127>>, <<1, 255>>}
VarintViews ==
    {p \o t : p \in UNION {[1..k -> ContBytes] : k \in 0..MaxContBytes},
              t \in VarintTails}

OrderTexts == UNION {[1..k -> {97, 98}] : k \in 0..MaxTextLen}
OrderValues ==
    {Null} \cup {Num(n) : n \in (0 - MaxInt)..MaxInt} \cup {Str(s) : s \in OrderTexts}

RecordValues == {Null, Num(1), Num(2), Str(<<97>>)}
RecordArrays == UNION {[1..k -> RecordValues] : k \in 0..MaxRecordLen}

ColumnBytes == {0, 1, 127, 128, 255}
ColumnSerialCodes == {0, 1, 2, 3, 4, 5, 6, 7, 8, 9, 12, 13, 15, 17}
ColumnViews == UNION {[1..k -> ColumnBytes] : k \in 0..4}

(***************************************************************************)
(* The codec and the ordering, one call per behaviour.                     *)
(***************************************************************************)
InitVarint == pc = "readVarint" /\ arg \in VarintViews /\ ret = <<>> /\ NoDatabase

CallReadVarint ==
    /\ pc = "readVarint"
    /\ ret' = readVarint(arg)
    /\ pc' = "returned"
    /\ UNCHANGED <<arg, dbVars>>

SpecVarint == InitVarint /\ [][CallReadVarint]_vars

InitCompare ==
    /\ pc = "compareSqliteValues"
    /\ arg \in OrderValues \X OrderValues \X OrderValues
    /\ ret = <<>>
    /\ NoDatabase

\* compareSqliteValues applied to the pairs of three values a, b, c.
CallCompareSqliteValues ==
    /\ pc = "compareSqliteValues"
    /\ ret' = [ab |-> compareSqliteValues(arg[1], arg[2]),
               ba |-> compareSqliteValues(arg[2], arg[1]),
               bc |-> compareSqliteValues(arg[2], arg[3]),
               ac |-> compareSqliteValues(arg[1], arg[3])]
    /\ pc' = "returned"
    /\ UNCHANGED <<arg, dbVars>>

SpecCompare == InitCompare /\ [][CallCompareSqliteValues]_vars

InitRecordCompare ==
    /\ pc = "recordArraysSortingPredicate"
    /\ arg \in RecordArrays \X RecordArrays
    /\ ret = <<>>
    /\ NoDatabase

CallRecordArraysSortingPredicate ==
    /\ pc = "recordArraysSortingPredicate"
    /\ ret' = recordArraysSortingPredicate(arg[1], arg[2])
    /\ pc' = "returned"
    /\ UNCHANGED <<arg, dbVars>>

SpecRecordCompare == InitRecordCompare /\ [][CallRecordArraysSortingPredicate]_vars

InitColumn ==
    /\ pc = "readRecordColumnValue"
    /\ arg \in [code : ColumnSerialCodes, view : ColumnViews]
    /\ ret = <<>>
    /\ NoDatabase

CallReadRecordColumnValue ==
    /\ pc = "readRecordColumnValue"
    /\ ret' = readRecordColumnValue(serialCodeToDatabaseType(arg.code), arg.view)
    /\ pc' = "returned"
    /\ UNCHANGED <<arg, dbVars>>

SpecColumn == InitColumn /\ [][CallReadRecordColumnValue]_vars

\* The table interior pages of getChildTablePageContainingRowId: the keys
\* are those of a set of the stored row-ids, in increasing order, cell j has
\* the left child j and the rightmost pointer is the number of cells + 1.
InteriorPageOf(S) ==
    [type |-> InteriorTable,
     cells |-> [j \in 1..Cardinality(S) |-> TableInteriorCell(j, SortedSeq(S)[j])],
     rightMostPointer |-> Cardinality(S) + 1]

\* The row-ids searched: the stored ones below 2^31 and one after each.
ChildRowIds == {1 + 50 * k : k \in 0..(2 * MaxRowId - 1)}

InitChild ==
    /\ pc = "getChildTablePageContainingRowId"
    /\ \E S \in SUBSET (1..NumIds), rowId \in ChildRowIds :
           arg = [keys |-> S, page |-> InteriorPageOf(S), rowId |-> rowId]
    /\ ret = <<>>
    /\ NoDatabase

CallGetChildTablePageContainingRowId ==
    /\ pc = "getChildTablePageContainingRowId"
    /\ ret' = getChildTablePageContainingRowId(arg.page, arg.rowId)
    /\ pc' = "returned"
    /\ UNCHANGED <<arg, dbVars>>

SpecChild == InitChild /\ [][CallGetChildTablePageContainingRowId]_vars

\* The table leaf pages of getCellWithRowIdFromTableLeafPage: the cells of a
\* set of the stored row-ids, in increasing order.
LeafPageOf(S) ==
    [type |-> LeafTable,
     cells |-> [j \in 1..Cardinality(S) |-> TableLeafCell(SortedSeq(S)[j], "stored key")],
     rightMostPointer |-> 0]

InitLeaf ==
    /\ pc = "getCellWithRowIdFromTableLeafPage"
    /\ \E S \in SUBSET (1..NumIds), rowId \in ChildRowIds :
           arg = [keys |-> S, page |-> LeafPageOf(S), rowId |-> rowId]
    /\ ret = <<>>
    /\ NoDatabase

CallGetCellWithRowIdFromTableLeafPage ==
    /\ pc = "getCellWithRowIdFromTableLeafPage"
    /\ ret' = getCellWithRowIdFromTableLeafPage(arg.page, arg.rowId)
    /\ pc' = "returned"
    /\ UNCHANGED <<arg, dbVars>>

SpecLeaf == InitLeaf /\ [][CallGetCellWithRowIdFromTableLeafPage]_vars

\* The sources of the scanner: a letter of a keyword in each case, a letter
\* of none, a digit, the two quotes, a blank, a punctuation mark and a
\* character that scanSql does not expect.
ScanAlphabet == {"o", "N", "x", "1", "'", "\"", " ", "(", "#"}

Sources == UNION {[1..n -> ScanAlphabet] : n \in 0..MaxSourceLen}

InitScan ==
    /\ pc = "scanSql"
    /\ arg \in Sources
    /\ ret = <<>>
    /\ NoDatabase

CallScanSql ==
    /\ pc = "scanSql"
    /\ ret' = scanSql(arg)
    /\ pc' = IF scanSql(arg).error = "" THEN "returned" ELSE "threw"
    /\ UNCHANGED <<arg, dbVars>>

SpecScan == InitScan /\ [][CallScanSql]_vars

(***************************************************************************)
(* getAllTableRows with the await of its interior branch taken apart: the  *)
(* reads of the child pages are issued in cell order, rightmost pointer    *)
(* last, they settle in any order, and Promise.all resumes the loop with   *)
(* the pages in the order of the promises.  descents holds the promises    *)
(* (readChildPagesPromises), settled the position of each in the order of  *)
(* completion.                                                             *)
(***************************************************************************)
\* The pages pushed when the child pages are taken as their reads complete.
childPagesAsSettled(promises) ==
    [n \in 1..Len(promises) |->
        promises[CHOOSE i \in 1..Len(promises) : promises[i].settled = n].page]

\* const childPages = await Promise.all(readChildPagesPromises)
childPages(promises) == [i \in 1..Len(promises) |-> promises[i].page]

\* The page shifted from the queue is a leaf (or a page of another type).
ScanLeafPage ==
    /\ ScanPage
    /\ file[Head(pages)].type # InteriorTable

\* The page shifted from the queue is an interior page: cells.map(readPage)
\* and the read of the rightmost pointer, up to the await.
ScanInteriorPage ==
    /\ pc = "getAllTableRows"
    /\ pages # <<>>
    /\ file[Head(pages)].type = InteriorTable
    /\ LET pointers == TableChildPointers(file[Head(pages)])
       IN  /\ descents' = [i \in 1..Len(pointers) |->
                              [page |-> pointers[i], status |-> "pending", settled |-> 0]]
           /\ reads' = ReadPages(reads, pointers)
    /\ pages' = Tail(pages)
    /\ pc' = "Promise.all"
    /\ UNCHANGED <<arg, ret, file, rows, cache, done, sqlVars>>

\* One of the reads completes: readPage returns or throws.
ChildPageReadSettles(i) ==
    /\ pc = "Promise.all"
    /\ i \in 1..Len(descents)
    /\ descents[i].status = "pending"
    /\ descents' = [descents EXCEPT
                       ![i].status = IF readPageThrows(file, descents[i].page)
                                     THEN "rejected" ELSE "fulfilled",
                       ![i].settled = 1 + Cardinality({j \in 1..Len(descents) :
                                                 descents[j].status # "pending"})]
    /\ UNCHANGED <<pc, arg, ret, file, pages, rows, cache, done, reads, sqlVars>>

\* The await ends: with the error of a rejected read, or, every read
\* fulfilled, with pages.push(...childPages).
ChildPagesArrive ==
    /\ pc = "Promise.all"
    /\ IF \E i \in 1..Len(descents) : descents[i].status = "rejected"
       THEN /\ pc' = "threw"
            /\ ret' = "Unsupported page type"
            /\ UNCHANGED pages
       ELSE /\ \A i \in 1..Len(descents) : descents[i].status = "fulfilled"
            /\ pages' = pages \o childPages(descents)
            /\ pc' = "getAllTableRows"
            /\ UNCHANGED ret
    /\ UNCHANGED <<arg, file, rows, cache, descents, done, reads, sqlVars>>

\* Tables, whole or with a second child of the root that readPage throws on.
OrderFiles ==
    TableFiles \cup {Unreadable(f, ChildPage(TableRoot, 2)) : f \in TableFiles}

InitOrder ==
    /\ pc = "idle"
    /\ arg = ArgNone
    /\ ret = <<>>
    /\ file \in OrderFiles
    /\ pages = <<>>
    /\ rows = <<>>
    /\ cache = <<>>
    /\ descents = <<>>
    /\ done = <<>>
    /\ reads = <<>>
    /\ NoSql

NextOrder ==
    \/ CallGetAllTableRows
    \/ ScanLeafPage
    \/ ScanInteriorPage
    \/ \E i \in 1..NumIds : ChildPageReadSettles(i)
    \/ ChildPagesArrive
    \/ ScanReturn

SpecOrder == InitOrder /\ [][NextOrder]_vars

(***************************************************************************)
(* getAllTableRows on page graphs of any shape: every page is a leaf with  *)
(* one row or an interior page with one cell, whose left child pointer and *)
(* rightmost pointer name any page of the file, the page itself and the    *)
(* root included.  The traversal of a graph with a cycle is followed for   *)
(* MaxReads page reads.                                                    *)
(***************************************************************************)
GraphPages == TableRoot..(TableRoot + MaxPages - 1)

GraphLeaf ==
    [type |-> LeafTable, cells |-> <<TableLeafCell(1, "stored key")>>,
     rightMostPointer |-> 0]

GraphInterior(left, right) ==
    [type |-> InteriorTable, cells |-> <<TableInteriorCell(left, 1)>>,
     rightMostPointer |-> right]

GraphFiles ==
    [GraphPages -> {GraphLeaf} \cup {GraphInterior(l, r) : l, r \in GraphPages}]

RECURSIVE SumOver(_, _)
SumOver(counts, S) ==
    IF S = {} THEN 0
    ELSE LET p == CHOOSE q \in S : TRUE
         IN  counts[p] + SumOver(counts, S \ {p})

InitGraph ==
    /\ pc = "idle"
    /\ arg = ArgNone
    /\ ret = <<>>
    /\ file \in GraphFiles
    /\ pages = <<>>
    /\ rows = <<>>
    /\ cache = <<>>
    /\ descents = <<>>
    /\ done = <<>>
    /\ reads = <<>>
    /\ NoSql

CallGetAllTableRowsOfGraph ==
    /\ pc = "idle"
    /\ GetAllTableRowsStart(TableRoot,
                            <<[name |-> "id", isPrimaryKey |-> TRUE],
                              [name |-> "c", isPrimaryKey |-> FALSE]>>,
                            {"id", "c"}, [on |-> FALSE])
    /\ UNCHANGED done

ScanPageOfGraph ==
    /\ SumOver(reads, DOMAIN reads) <= MaxReads
    /\ ScanPage

NextGraph ==
    \/ CallGetAllTableRowsOfGraph
    \/ ScanPageOfGraph
    \/ ScanReturn

SpecGraph == InitGraph /\ [][NextGraph]_vars

(***************************************************************************)
(* sql-parser.ts: parseSql over tokens, a sequence that ends with the eof  *)
(* token.  current counts the tokens consumed, as in the source.  A parse  *)
(* function returns the position it stops at and its value, or the message *)
(* of the error it throws.                                                 *)
(***************************************************************************)
Parsed(current, value) == [error |-> "", current |-> current, value |-> value]
ParseError(message) == [error |-> message, current |-> 0, value |-> <<>>]

\* peek().type === TokenType.Eof
parserIsAtEnd(tokens, current) == tokens[current + 1].type = "eof"

check(tokens, current, type) ==
    /\ ~parserIsAtEnd(tokens, current)
    /\ tokens[current + 1].type = type

\* peekNext() is the token after the next one: not at the end, there is one.
checkNext(tokens, current, type) ==
    /\ ~parserIsAtEnd(tokens, current)
    /\ tokens[current + 2].type = type

\* match(...types): advances over a token of one of the types.
match(tokens, current, types) ==
    IF \E type \in types : check(tokens, current, type) THEN current + 1 ELSE current

consume(tokens, current, type) ==
    IF check(tokens, current, type) THEN Parsed(current + 1, <<>>)
    ELSE ParseError("Unexpected token")

entityName(tokens, current, error) ==
    IF match(tokens, current, {"identifier", "string"}) = current
    THEN ParseError(error)
    ELSE Parsed(current + 1, tokens[current + 1].lexeme)

Digits == <<"0", "1", "2", "3", "4", "5", "6", "7", "8", "9">>

\* parseInt of a number token's lexeme, which holds decimal digits only.
RECURSIVE parseInt(_)
parseInt(numberText) ==
    IF numberText = <<>> THEN 0
    ELSE 10 * parseInt(SubSeq(numberText, 1, Len(numberText) - 1))
         + (CHOOSE d \in 0..9 : Digits[d + 1] = numberText[Len(numberText)])

selectColumn(tokens, current) ==
    IF check(tokens, current, "identifier")
    THEN LET columnIdentifier == tokens[current + 1]
         IN  IF /\ toLowerCase(columnIdentifier.lexeme) = <<"c", "o", "u", "n", "t">>
                /\ check(tokens, current + 1, "left_paren")
             THEN IF consume(tokens, current + 2, "star").error # ""
                  THEN ParseError("Unexpected token")
                  ELSE IF consume(tokens, current + 3, "right_paren").error # ""
                  THEN ParseError("Unexpected token")
                  ELSE Parsed(current + 4, <<"c", "o", "u", "n", "t", "(", "*", ")">>)
             ELSE Parsed(current + 1, columnIdentifier.lexeme)
    ELSE IF check(tokens, current, "string")
    THEN Parsed(current + 1, tokens[current + 1].lexeme)
    ELSE ParseError("Column name was expected in SELECT")

where(tokens, current) ==
    LET column == entityName(tokens, current,
                             "Column name in the WHERE condition was expected")
        equal == consume(tokens, column.current, "equal")
    IN  IF column.error # "" THEN column
        ELSE IF equal.error # "" THEN equal
        ELSE IF check(tokens, equal.current, "number")
        THEN Parsed(equal.current + 1,
                    [on |-> TRUE, columnName |-> column.value,
                     value |-> Num(parseInt(tokens[equal.current + 1].lexeme))])
        ELSE IF check(tokens, equal.current, "string")
        THEN Parsed(equal.current + 1,
                    [on |-> TRUE, columnName |-> column.value,
                     value |-> Str(tokens[equal.current + 1].lexeme)])
        ELSE ParseError("Wrong WHERE condition")

\* The loop of select(): while (!isAtEnd()) { columns.push(selectColumn());
\* if (!match(Comma)) break; }
RECURSIVE SelectColumns(_, _, _)
SelectColumns(tokens, current, columns) ==
    IF parserIsAtEnd(tokens, current) THEN Parsed(current, columns)
    ELSE LET column == selectColumn(tokens, current)
         IN  IF column.error # "" THEN column
             ELSE IF match(tokens, column.current, {"comma"}) = column.current
             THEN Parsed(column.current, Append(columns, column.value))
             ELSE SelectColumns(tokens, column.current + 1,
                                Append(columns, column.value))

select(tokens, current) ==
    LET columns == SelectColumns(tokens, consume(tokens, current, "select").current, <<>>)
        from == consume(tokens, columns.current, "from")
        table == consume(tokens, from.current, "identifier")
        tableName == tokens[table.current].lexeme
        condition == where(tokens, table.current + 1)
    IN  IF columns.error # "" THEN columns
        ELSE IF from.error # "" THEN from
        ELSE IF table.error # "" THEN table
        ELSE IF match(tokens, table.current, {"where"}) = table.current
        THEN Parsed(table.current,
                    [type |-> "select", table |-> tableName,
                     columns |-> columns.value, where |-> NoWhere])
        ELSE IF condition.error # "" THEN condition
        ELSE Parsed(condition.current,
                    [type |-> "select", table |-> tableName,
                     columns |-> columns.value, where |-> condition.value])

\* The loop of columnDef(): the tokens up to the next comma or right
\* parenthesis, isPrimaryKey once PRIMARY KEY is among them.
RECURSIVE ColumnDefRest(_, _, _)
ColumnDefRest(tokens, current, isPrimaryKey) ==
    IF \/ parserIsAtEnd(tokens, current)
       \/ check(tokens, current, "comma")
       \/ check(tokens, current, "right_paren")
    THEN Parsed(current, isPrimaryKey)
    ELSE ColumnDefRest(tokens, current + 1,
                       \/ isPrimaryKey
                       \/ /\ check(tokens, current, "primary")
                          /\ checkNext(tokens, current, "key"))

columnDef(tokens, current) ==
    LET name == entityName(tokens, current, "Column name was expected")
        rest == ColumnDefRest(tokens, name.current, FALSE)
    IN  IF name.error # "" THEN name
        ELSE Parsed(rest.current, [name |-> name.value, isPrimaryKey |-> rest.value])

\* The loop of CREATE TABLE: while (!isAtEnd()) { columns.push(columnDef());
\* if (!match(Comma)) { consume(RightParen); break; } }
RECURSIVE ColumnDefs(_, _, _)
ColumnDefs(tokens, current, columns) ==
    IF parserIsAtEnd(tokens, current) THEN Parsed(current, columns)
    ELSE LET column == columnDef(tokens, current)
         IN  IF column.error # "" THEN column
             ELSE IF match(tokens, column.current, {"comma"}) = column.current
             THEN IF consume(tokens, column.current, "right_paren").error # ""
                  THEN ParseError("Unexpected token")
                  ELSE Parsed(column.current + 1, Append(columns, column.value))
             ELSE ColumnDefs(tokens, column.current + 1, Append(columns, column.value))

\* The loop of CREATE INDEX over the column names.
RECURSIVE IndexColumns(_, _, _)
IndexColumns(tokens, current, columns) ==
    IF parserIsAtEnd(tokens, current) THEN Parsed(current, columns)
    ELSE LET column == entityName(tokens, current,
                                  "Column name is expected in index definition")
         IN  IF column.error # "" THEN column
             ELSE IF match(tokens, column.current, {"comma"}) = column.current
             THEN Parsed(column.current, Append(columns, column.value))
             ELSE IndexColumns(tokens, column.current + 1,
                               Append(columns, column.value))

create(tokens, current) ==
    LET afterCreate == consume(tokens, current, "create").current
    IN  IF check(tokens, afterCreate, "table")
        THEN LET tableName == entityName(tokens, afterCreate + 1,
                                         "Table name was expected")
                 paren == consume(tokens, tableName.current, "left_paren")
                 columns == ColumnDefs(tokens, paren.current, <<>>)
             IN  IF tableName.error # "" THEN tableName
                 ELSE IF paren.error # "" THEN paren
                 ELSE IF columns.error # "" THEN columns
                 ELSE Parsed(columns.current,
                             [type |-> "create_table", tableName |-> tableName.value,
                              tableSchema |-> columns.value])
        ELSE IF check(tokens, afterCreate, "index")
        THEN LET indexName == entityName(tokens, afterCreate + 1,
                                         "Index name was expected")
                 on == consume(tokens, indexName.current, "on")
                 tableName == entityName(tokens, on.current, "Table name was expected")
                 paren == consume(tokens, tableName.current, "left_paren")
                 columns == IndexColumns(tokens, paren.current, <<>>)
                 close == consume(tokens, columns.current, "right_paren")
             IN  IF indexName.error # "" THEN indexName
                 ELSE IF on.error # "" THEN on
                 ELSE IF tableName.error # "" THEN tableName
                 ELSE IF paren.error # "" THEN paren
                 ELSE IF columns.error # "" THEN columns
                 ELSE IF close.error # "" THEN close
                 ELSE Parsed(close.current,
                             [type |-> "create_index", indexName |-> indexName.value,
                              tableName |-> tableName.value, columns |-> columns.value])
        ELSE ParseError("Unsupported command")

command(tokens, current) ==
    IF check(tokens, current, "select") THEN select(tokens, current)
    ELSE IF check(tokens, current, "create") THEN create(tokens, current)
    ELSE ParseError("Unsupported command")

parseSql(tokens) == command(tokens, 0)

(***************************************************************************)
(* parseSql on the token streams of statements: a SELECT put together from *)
(* a column list, a FROM part, a WHERE part and what follows, each well or *)
(* ill formed, and a CREATE TABLE or CREATE INDEX.                         *)
(***************************************************************************)
Keyword(type) == [type |-> type, lexeme |-> <<>>]
Identifier(text) == [type |-> "identifier", lexeme |-> text]
StringToken(text) == [type |-> "string", lexeme |-> text]
NumberToken(text) == [type |-> "number", lexeme |-> text]

CountToken == Identifier(<<"C", "o", "u", "n", "t">>)

ColumnLists ==
    {<<>>,
     <<Identifier(<<"a">>)>>,
     <<StringToken(<<"a">>)>>,
     <<Identifier(<<"a">>), Keyword("comma"), Identifier(<<"b">>)>>,
     <<Identifier(<<"a">>), Keyword("comma")>>,
     <<CountToken, Keyword("left_paren"), Keyword("star"), Keyword("right_paren")>>,
     <<Identifier(<<"a">>), Keyword("left_paren"), Keyword("star"), Keyword("right_paren")>>,
     <<CountToken, Keyword("left_paren"), Keyword("right_paren")>>,
     <<CountToken, Keyword("comma"), StringToken(<<"b">>)>>,
     <<NumberToken(<<"1">>)>>,
     <<Keyword("star")>>}

FromParts ==
    {<<Keyword("from"), Identifier(<<"t">>)>>,
     <<Keyword("from"), StringToken(<<"t">>)>>,
     <<Keyword("from")>>,
     <<Identifier(<<"t">>)>>,
     <<>>}

WhereParts ==
    {<<>>,
     <<Keyword("where"), Identifier(<<"c">>), Keyword("equal"), NumberToken(<<"0", "1", "2">>)>>,
     <<Keyword("where"), Identifier(<<"c">>), Keyword("equal"), StringToken(<<"b">>)>>,
     <<Keyword("where"), StringToken(<<"c">>), Keyword("equal"), NumberToken(<<"7">>)>>,
     <<Keyword("where"), NumberToken(<<"1">>), Keyword("equal"), NumberToken(<<"7">>)>>,
     <<Keyword("where"), Identifier(<<"c">>), Keyword("equal"), Identifier(<<"d">>)>>,
     <<Keyword("where"), Identifier(<<"c">>), NumberToken(<<"7">>)>>,
     <<Keyword("where"), Identifier(<<"c">>), Keyword("equal")>>,
     <<Keyword("where")>>}

Trailers ==
    {<<>>, <<Identifier(<<"x">>)>>, <<Keyword("comma")>>, <<NumberToken(<<"1">>)>>,
     <<Keyword("select")>>, <<Keyword("right_paren")>>}

SelectStreams ==
    {<<Keyword("select")>> \o columns \o from \o condition \o trailer \o <<Keyword("eof")>> :
        columns \in ColumnLists, from \in FromParts, condition \in WhereParts,
        trailer \in Trailers}

ColumnTypes ==
    {<<>>, <<Identifier(<<"i", "n", "t", "e", "g", "e", "r">>)>>,
     <<Identifier(<<"t", "e", "x", "t">>)>>}

ColumnConstraints ==
    {<<>>, <<Keyword("primary"), Keyword("key")>>, <<Keyword("primary")>>,
     <<Keyword("key"), Keyword("primary")>>}

ColumnDefinitions ==
    {<<Identifier(name)>> \o type \o constraint :
        name \in {<<"i", "d">>}, type \in ColumnTypes, constraint \in ColumnConstraints}

CreateTableStreams ==
    {<<Keyword("create"), Keyword("table"), Identifier(<<"t">>), Keyword("left_paren")>>
         \o id \o <<Keyword("comma"), Identifier(<<"c">>)>> \o type \o close
         \o <<Keyword("eof")>> :
        id \in ColumnDefinitions, type \in ColumnTypes,
        close \in {<<Keyword("right_paren")>>, <<>>, <<Keyword("comma")>>,
                   <<Keyword("right_paren"), Identifier(<<"x">>)>>}}

CreateIndexStreams ==
    {<<Keyword("create"), Keyword("index"), Identifier(<<"i">>)>> \o on
         \o <<Keyword("left_paren")>> \o columns \o close \o <<Keyword("eof")>> :
        on \in {<<Keyword("on"), Identifier(<<"t">>)>>, <<Identifier(<<"t">>)>>},
        columns \in {<<>>, <<Identifier(<<"c">>)>>,
                     <<Identifier(<<"c">>), Keyword("comma"), StringToken(<<"d">>)>>,
                     <<Keyword("key")>>},
        close \in {<<Keyword("right_paren")>>, <<>>}}

TokenStreams ==
    SelectStreams \cup CreateTableStreams \cup CreateIndexStreams
        \cup {<<Keyword("eof")>>, <<Keyword("table"), Keyword("eof")>>,
              <<Keyword("create"), Keyword("eof")>>}

InitParse ==
    /\ pc = "parseSql"
    /\ arg \in TokenStreams
    /\ ret = <<>>
    /\ NoDatabase

CallParseSql ==
    /\ pc = "parseSql"
    /\ ret' = parseSql(arg)
    /\ pc' = IF parseSql(arg).error = "" THEN "returned" ELSE "threw"
    /\ UNCHANGED <<arg, dbVars>>

SpecParse == InitParse /\ [][CallParseSql]_vars

(***************************************************************************)
(* getTableSchema and the full scan with the schema it returns: the table  *)
(* t(id, c) is declared by a CREATE TABLE text that gives id a type or     *)
(* none and declares it PRIMARY KEY or not, and its records store at the   *)
(* position of id a NULL, an integer or a text.                            *)
(***************************************************************************)
\* getTableSchema(table): scanSql(table.sql), parseSql, the node's tableSchema.
getTableSchemaOfSql(sql) ==
    IF scanSql(sql).error # "" THEN Thrown(scanSql(sql).error)
    ELSE IF parseSql(scanSql(sql).value).error # ""
    THEN Thrown(parseSql(scanSql(sql).value).error)
    ELSE Returned(parseSql(scanSql(sql).value).value.tableSchema)

IntegerType == <<" ", "i", "n", "t", "e", "g", "e", "r">>

DeclaredTypes == {<<>>, IntegerType, <<" ", "t", "e", "x", "t">>}

PrimaryKeyConstraint == <<" ", "P", "R", "I", "M", "A", "R", "Y", " ", "K", "E", "Y">>

CreateTableSql(type, constraint) ==
    <<"c", "r", "e", "a", "t", "e", " ", "t", "a", "b", "l", "e", " ", "t", " ", "(", "i", "d">>
        \o type \o constraint \o <<",", " ", "c", " ", "t", "e", "x", "t", ")">>

CreateTableSqls ==
    {CreateTableSql(type, constraint) :
        type \in DeclaredTypes, constraint \in {<<>>, PrimaryKeyConstraint}}

CreateFiles ==
    UNION {TableTrees(SortedSeq(S), MaxDepth, TableRoot, variant)
           : S \in SUBSET (1..NumIds), variant \in {"null key", "stored key", "text key"}}

InitCreate ==
    /\ pc = "idle"
    /\ arg = ArgNone
    /\ ret = <<>>
    /\ file \in CreateFiles
    /\ pages = <<>>
    /\ rows = <<>>
    /\ cache = <<>>
    /\ descents = <<>>
    /\ done = <<>>
    /\ reads = <<>>
    /\ sqliteSchema \in {[tables |-> <<[name |-> "t", rootPage |-> TableRoot, sql |-> sql]>>,
                          indexes |-> <<>>] : sql \in CreateTableSqls}
    /\ selectNode = NoSelect
    /\ stdout = <<>>
    /\ NoMain

\* getTableSchema(table), then getAllTableRows with the schema.
CallGetAllTableRowsOfTable ==
    /\ pc = "idle"
    /\ LET table == sqliteSchema.tables[1]
           tableSchema == getTableSchemaOfSql(table.sql)
       IN  /\ tableSchema.error = ""
           /\ \E columnsToRetrieve \in {{<<"c">>}, {<<"i", "d">>, <<"c">>}} :
                  GetAllTableRowsStart(table.rootPage, tableSchema.value,
                                       columnsToRetrieve, [on |-> FALSE])
    /\ UNCHANGED done

NextCreate ==
    \/ CallGetAllTableRowsOfTable
    \/ ScanPage
    \/ ScanReturn

SpecCreate == InitCreate /\ [][NextCreate]_vars

(***************************************************************************)
(* executeSelect of a statement with WHERE c = v on a table with an index  *)
(* on c, and then, on the same database, the other branch of               *)
(* executeSelect for the same statement: getAllTableRows with whereFilter. *)
(* The index holds one entry (c, row-id) per row of the table, in the      *)
(* order of the stored values.                                             *)
(***************************************************************************)
WhereDatabases ==
    {database \in Databases({{}, 1..MaxRowId, 1..NumIds},
                            {"null key", "stored key", "wide integer",
                             "three-byte integer"}) :
        database.sqliteSchema.indexes # <<>>}

WhereNodes ==
    {[table |-> "t", columns |-> <<"id", "c">>, where |-> Where("c", value)] :
        value \in {Num(1), Num(2), Num(MaxRowId), Str(<<97>>), Str(<<98>>)}}
    \cup {[table |-> "t", columns |-> <<"count(*)">>, where |-> Where("c", Num(2))]}

InitWhere ==
    /\ \E database \in WhereDatabases :
           /\ file = database.file
           /\ sqliteSchema = database.sqliteSchema
    /\ selectNode = NoSelect
    /\ stdout = <<>>
    /\ NoMain
    /\ arg = ArgNone
    /\ pc = "idle"
    /\ ret = <<>>
    /\ pages = <<>>
    /\ rows = <<>>
    /\ cache = <<>>
    /\ descents = <<>>
    /\ done = <<>>
    /\ reads = <<>>

CallExecuteSqlWhere ==
    /\ pc = "idle"
    /\ \E node \in WhereNodes : ExecuteSql(node)
    /\ UNCHANGED done

\* console.log of the rows of the lookup.
SelectPrintsLookup ==
    /\ arg.call = "getRowsByRowIds"
    /\ SelectPrints

\* The branch of executeSelect without an index, for the statement that has
\* just ended.
CallGetAllTableRowsWhere ==
    /\ pc \in {"resolved", "threw"}
    /\ done = <<>>
    /\ done' = <<Statement>>
    /\ GetAllTableRowsStart(SelectTable.rootPage, getTableSchema(SelectTable),
                            ColumnsToRetrieve(selectNode), selectNode.where)

NextWhere ==
    \/ CallExecuteSqlWhere
    \/ ExecuteSelect
    \/ IndexVisitPage
    \/ IndexReturn
    \/ SelectLooksUp
    \/ \E pageNumber \in DOMAIN cache : PageReadSettles(pageNumber)
    \/ \E i \in 1..Len(descents) : DescentResumes(i)
    \/ LookupThrows
    \/ LookupReturns
    \/ SelectPrintsLookup
    \/ CallGetAllTableRowsWhere
    \/ ScanPage
    \/ ScanReturn

SpecWhere == InitWhere /\ [][NextWhere]_vars

(***************************************************************************)
(* C4.  Every well-formed varint of k bytes, 1 <= k <= 8 (k-1 continuation *)
(* bytes, then a byte with the high bit clear), decodes to the value whose *)
(* base-128 digits are the low 7 bits of its bytes: the returned value is  *)
(* non-negative and encoding it in k bytes gives the original bytes back.  *)
(***************************************************************************)
WellFormedVarint(data, k) ==
    /\ Len(data) >= k
    /\ \A i \in 1..(k - 1) : data[i] >= 128
    /\ data[k] < 128

\* The base-128 digit of weight 128^p of value (0 <= value < 2^31, so the
\* digits of weight 128^5 and above are 0).
Digit128(value, p) == IF p >= 5 THEN 0 ELSE (value \div (128^p)) % 128

EncodeVarint(value, k) ==
    [i \in 1..k |-> Digit128(value, k - i) + (IF i < k THEN 128 ELSE 0)]

C4_VarintRoundTrip ==
    pc = "returned" =>
        \A k \in 1..8 :
            WellFormedVarint(arg, k) =>
                /\ ret.error = ""
                /\ ret.bytesRead = k
                /\ ret.value >= 0
                /\ EncodeVarint(ret.value, k) = SubSeq(arg, 1, k)

(***************************************************************************)
(* C5 as stated: readVarint consumes between 1 and 8 bytes: it stops at    *)
(* the first byte whose high bit is clear or after 8 bytes, and bytesRead  *)
(* is never greater than 8.                                                *)
(***************************************************************************)
C5_AtMost8Bytes ==
    (pc = "returned" /\ ret.error = "") =>
        /\ ret.bytesRead \in 1..8
        /\ \A i \in 1..(ret.bytesRead - 1) : arg[i] >= 128
        /\ (ret.bytesRead < 8 => arg[ret.bytesRead] < 128)

(***************************************************************************)
(* C5 amended: readVarint consumes between 1 and 9 bytes of every view it  *)
(* decodes: every byte before the last one has its high bit set, and the   *)
(* last one has its high bit clear unless it is the 9th; bytesRead is      *)
(* never greater than 9.  It throws only when the view ends before that.   *)
(***************************************************************************)
C5_AtMost9Bytes ==
    pc = "returned" =>
        IF ret.error = ""
        THEN /\ ret.bytesRead \in 1..9
             /\ ret.bytesRead <= Len(arg)
             /\ \A i \in 1..(ret.bytesRead - 1) : arg[i] >= 128
             /\ (ret.bytesRead < 9 => arg[ret.bytesRead] < 128)
        ELSE /\ Len(arg) < 9
             /\ \A i \in 1..Len(arg) : arg[i] >= 128

\* A view whose first 8 bytes all have the high bit set: the 9th is consumed.
C5_NineBytesRead ==
    pc = "returned" /\ ret.error = "" /\ ret.bytesRead = 9 /\ Len(arg) > 9

(***************************************************************************)
(* C6.  An integer column of serial type 1, 2, 3 or 4 decodes to the       *)
(* big-endian two's-complement value of its 1, 2, 3 or 4 bytes.            *)
(***************************************************************************)
RECURSIVE UnsignedBigEndian(_)
UnsignedBigEndian(bytes) ==
    IF bytes = <<>> THEN 0
    ELSE UnsignedBigEndian(SubSeq(bytes, 1, Len(bytes) - 1)) * 256 + bytes[Len(bytes)]

TwosComplement(bytes) ==
    SignedByte(bytes[1]) * (256^(Len(bytes) - 1)) + UnsignedBigEndian(Tail(bytes))

C6_SignedBigEndian ==
    (pc = "returned" /\ arg.code \in 1..4 /\ Len(arg.view) >= arg.code) =>
        /\ ret.error = ""
        /\ ret.value = Num(TwosComplement(SubSeq(arg.view, 1, arg.code)))

(***************************************************************************)
(* C8.  compareSqliteValues is a total order on NULL, integers and text:   *)
(* NULL equals NULL and is below every other value, integers and texts     *)
(* compare by <, every integer is below every text; the result is          *)
(* antisymmetric, 0 exactly for the same value, and transitive.            *)
(***************************************************************************)
\* s sorts before t: t continues s, or the first code unit that differs is smaller.
StrBefore(s, t) ==
    \E i \in 1..Len(t) :
        /\ \A j \in 1..(i - 1) : j <= Len(s) /\ s[j] = t[j]
        /\ (i = Len(s) + 1 \/ (i <= Len(s) /\ s[i] < t[i]))

C8_TotalOrder ==
    pc = "returned" =>
        LET a == arg[1]
            b == arg[2]
            c == arg[3]
        IN  /\ ret.ab \in {-1, 0, 1}
            /\ (a.kind = "null" /\ b.kind = "null" => ret.ab = 0)
            /\ (a.kind = "null" /\ b.kind # "null" => ret.ab = -1)
            /\ (a.kind = "number" /\ b.kind = "number" =>
                    (ret.ab = -1 <=> a.num < b.num))
            /\ (a.kind = "string" /\ b.kind = "string" =>
                    (ret.ab = -1 <=> StrBefore(a.str, b.str)))
            /\ (a.kind = "number" /\ b.kind = "string" => ret.ab = -1)
            /\ ret.ab = 0 - ret.ba
            /\ (ret.ab = 0 <=> a = b)
            /\ (ret.ab <= 0 /\ ret.bc <= 0 => ret.ac <= 0)
            /\ (ret.ab < 0 /\ ret.bc <= 0 => ret.ac < 0)
            /\ (ret.ab <= 0 /\ ret.bc < 0 => ret.ac < 0)

\* A chain across the three kinds: NULL < integer < text.
C8_ChainAcrossKinds ==
    /\ pc = "returned"
    /\ arg[1].kind = "null" /\ arg[2].kind = "number" /\ arg[3].kind = "string"
    /\ ret.ab = -1 /\ ret.bc = -1 /\ ret.ba = 1 /\ ret.ac = -1

(***************************************************************************)
(* C9.  recordArraysSortingPredicate is the comparison of the first        *)
(* component that differs among the first min(len1, len2) components, and  *)
(* 0 when there is none, whatever the components after that prefix are.    *)
(***************************************************************************)
C9_CommonPrefixLexicographic ==
    pc = "returned" =>
        LET record1 == arg[1]
            record2 == arg[2]
            m == Min(Len(record1), Len(record2))
            differing == {i \in 1..m : record1[i] # record2[i]}
        IN  IF differing = {}
            THEN ret = 0
            ELSE LET first == CHOOSE i \in differing : \A j \in differing : i <= j
                 IN  /\ ret = compareSqliteValues(record1[first], record2[first])
                     /\ ret # 0

\* Two records equal on the common prefix, the longer one with a trailing component.
C9_TrailingIgnored ==
    /\ pc = "returned"
    /\ Len(arg[2]) >= 1
    /\ Len(arg[1]) > Len(arg[2])
    /\ arg[1] # arg[2]
    /\ ret = 0

(***************************************************************************)
(* C1.  On a table B-tree that satisfies the format invariants, the rows   *)
(* of the full scan have pairwise different row-ids, and a point lookup    *)
(* from the same root succeeds for exactly the row-ids of those rows.      *)
(***************************************************************************)
\* The row-id of the cell a row was decoded from.
RowIdOf(row) == readTableLeafCell(file[row.cell[1]].cells[row.cell[2]]).rowId

C1_ScanEqualsLookup ==
    (/\ pc \in {"returned", "threw"}
     /\ arg.call = "getRowsByRowIds"
     /\ done[1].call = "getAllTableRows"
     /\ done[1].outcome = "returned") =>
        LET scanned == done[1].result
        IN  /\ \A i, j \in 1..Len(scanned) :
                   i # j => RowIdOf(scanned[i]) # RowIdOf(scanned[j])
            /\ (pc = "returned") <=>
                   (\E i \in 1..Len(scanned) : RowIdOf(scanned[i]) = arg.rowIds[1])

IndexCells ==
    {c \in (DOMAIN file) \X (1..(MaxEntries + 1)) : c[2] <= Len(file[c[1]].cells)}

KeyRecordOf(c) == readRecordAsArray(readIndexLeafCell(file[c[1]].cells[c[2]]))

PrefixCompare(record, keyPrefix) ==
    IF \E j \in 1..Len(keyPrefix) : compareSqliteValues(record[j], keyPrefix[j]) # 0
    THEN LET j == CHOOSE j \in 1..Len(keyPrefix) :
                      /\ compareSqliteValues(record[j], keyPrefix[j]) # 0
                      /\ \A h \in 1..(j - 1) :
                             compareSqliteValues(record[h], keyPrefix[h]) = 0
         IN  compareSqliteValues(record[j], keyPrefix[j])
    ELSE 0

RECURSIVE InOrderCells(_, _)
RECURSIVE InOrderFrom(_, _, _)
InOrderFrom(f, p, i) ==
    IF i > Len(f[p].cells) THEN InOrderCells(f, f[p].rightMostPointer)
    ELSE InOrderCells(f, f[p].cells[i].leftChildPointer) \o <<<<p, i>>>>
             \o InOrderFrom(f, p, i + 1)

InOrderCells(f, p) ==
    IF f[p].type = InteriorIndex THEN InOrderFrom(f, p, 1)
    ELSE [i \in 1..Len(f[p].cells) |-> <<p, i>>]

\* Page by page from the root, a page's children behind the pages queued
\* before them, the cells of a page in cell order.
RECURSIVE LevelOrderCells(_, _)
LevelOrderCells(f, queue) ==
    IF queue = <<>> THEN <<>>
    ELSE LET p == Head(queue)
             children ==
                 IF f[p].type = InteriorIndex
                 THEN [i \in 1..Len(f[p].cells) |-> f[p].cells[i].leftChildPointer]
                          \o <<f[p].rightMostPointer>>
                 ELSE <<>>
         IN  [i \in 1..Len(f[p].cells) |-> <<p, i>>]
                 \o LevelOrderCells(f, Tail(queue) \o children)

\* The place in a traversal of the cell a returned row-id comes from.
PlaceOf(rowId, traversal) ==
    CHOOSE i \in 1..Len(traversal) :
        /\ KeyRecordOf(traversal[i]).error = ""
        /\ Pop(KeyRecordOf(traversal[i]).record) = rowId

FollowsTraversal(rowIds, traversal) ==
    \A m, n \in 1..Len(rowIds) :
        m < n => PlaceOf(rowIds[m], traversal) < PlaceOf(rowIds[n], traversal)

C10_InOrder ==
    (pc = "returned" /\ arg.call = "getRowIdsWithIndexValue") =>
        FollowsTraversal(ret, InOrderCells(file, IndexRoot))

\* C10 as amended: the row-ids appear in breadth-first order, so a match in
\* an interior cell comes before the matches of that cell's left subtree.
C10_LevelOrder ==
    (pc = "returned" /\ arg.call = "getRowIdsWithIndexValue") =>
        FollowsTraversal(ret, LevelOrderCells(file, <<IndexRoot>>))

\* Matches in the root's first cell, in its left subtree and to its right.
C10_InteriorBeforeLeftSubtree ==
    /\ pc = "returned"
    /\ arg.call = "getRowIdsWithIndexValue"
    /\ file[IndexRoot].type = InteriorIndex
    /\ Len(ret) >= 3
    /\ Pop(KeyRecordOf(<<IndexRoot, 1>>).record) = ret[1]
    /\ \E i \in 1..Len(file[file[IndexRoot].cells[1].leftChildPointer].cells) :
           Pop(KeyRecordOf(<<file[IndexRoot].cells[1].leftChildPointer, i>>).record)
               = ret[2]
    /\ PlaceOf(ret[3], InOrderCells(file, IndexRoot))
           > PlaceOf(ret[1], InOrderCells(file, IndexRoot))

(***************************************************************************)
(* C3.  For every table T and every column c of T, the number that the     *)
(* count statement on T (SELECT count FROM T, with the star) prints equals *)
(* the number of rows that SELECT c FROM T then produces on the same       *)
(* database.                                                               *)
(***************************************************************************)
C3_CountEqualsRows ==
    (/\ pc \in {"resolved", "threw"}
     /\ Len(done) = 1
     /\ done[1].outcome = "resolved"
     /\ done[1].call.columns = <<"count(*)">>
     /\ ~done[1].call.where.on
     /\ selectNode.table = done[1].call.table
     /\ ~selectNode.where.on
     /\ Len(selectNode.columns) = 1
     /\ \E i \in 1..Len(getTableSchema(SelectTable)) :
            getTableSchema(SelectTable)[i].name = selectNode.columns[1]) =>
        /\ pc = "resolved"
        /\ done[1].result = <<<<Num(Len(stdout))>>>>

(***************************************************************************)
(* C11.  getRowsByRowIds returns one row per input row-id, in the input    *)
(* order: result[i] is the row of the cell whose row-id is rowIds[i],      *)
(* however the descents and their page reads interleave.                   *)
(***************************************************************************)
C11_InputOrder ==
    (pc = "returned" /\ arg.call = "getRowsByRowIds") =>
        /\ Len(ret) = Len(arg.rowIds)
        /\ \A i \in 1..Len(ret) : RowIdOf(ret[i]) = arg.rowIds[i]

\* Row-ids given in decreasing order, their rows on different leaves, and
\* the second descent done before the first.
C11_SecondSettlesFirst ==
    /\ pc = "getRowsByRowIds"
    /\ arg.rowIds = <<101, 1>>
    /\ file[TableRoot].type = InteriorTable
    /\ descents[1].status = "awaiting"
    /\ descents[2].status = "fulfilled"
    /\ descents[1].page # descents[2].page

(***************************************************************************)
(* C12.  Within one getRowsByRowIds call readPage is called at most once   *)
(* for each page number, for any row-ids (duplicates too) and any          *)
(* interleaving: a descent that needs a page whose read is pending shares  *)
(* that read.                                                              *)
(***************************************************************************)
C12_EachPageReadOnce ==
    arg.call = "getRowsByRowIds" => \A p \in DOMAIN reads : reads[p] <= 1

\* Two descents await the one pending read of a leaf page.
C12_PendingReadShared ==
    /\ pc = "getRowsByRowIds"
    /\ Len(descents) >= 2
    /\ descents[1].status = "awaiting"
    /\ descents[2].status = "awaiting"
    /\ descents[1].page = descents[2].page
    /\ descents[1].page # TableRoot
    /\ cache[descents[1].page] = "pending"
    /\ reads[descents[1].page] = 1

(***************************************************************************)
(* C13: in every run of the program, for .dbinfo, .tables and a SQL        *)
(* statement alike, once openDatabase has opened the file its handle is    *)
(* eventually closed, whether the command succeeds or fails: no run ends,  *)
(* by the end of main or by the rejection of its top-level await, with the *)
(* handle open.                                                            *)
(***************************************************************************)
C13_ClosedAtExit == pc \in {"exited", "rejected"} => fileHandle # "open"

(***************************************************************************)
(* C14: for every source that scanSql accepts, the lexemes of its tokens,  *)
(* joined with a blank between two of them, scan again to the same tokens, *)
(* a keyword and an identifier counting as the same type.                  *)
(***************************************************************************)
RECURSIVE JoinLexemes(_)
JoinLexemes(tokens) ==
    IF tokens = <<>> THEN <<>>
    ELSE IF Len(tokens) = 1 THEN tokens[1].lexeme
    ELSE tokens[1].lexeme \o <<" ">> \o JoinLexemes(Tail(tokens))

KeywordOrIdentifier(token) ==
    IF \E k \in keywordsMap : k.type = token.type
    THEN [token EXCEPT !.type = "identifier"]
    ELSE token

SameTokenStream(a, b) ==
    /\ Len(a) = Len(b)
    /\ \A i \in 1..Len(a) : KeywordOrIdentifier(a[i]) = KeywordOrIdentifier(b[i])

C14_RelexSameStream ==
    (pc = "returned" /\ arg \in Sources) =>
        /\ scanSql(JoinLexemes(ret.value)).error = ""
        /\ SameTokenStream(scanSql(JoinLexemes(ret.value)).value, ret.value)

(***************************************************************************)
(* C15: executeSelect takes the indexed path, the index walk and then the  *)
(* point lookups and no scan of the table, exactly when the SELECT has a   *)
(* WHERE clause and some index of the selected table has the WHERE column  *)
(* as its first column; in every other case it scans the table with the    *)
(* equality filter of the WHERE clause, if any.                            *)
(***************************************************************************)
IndexOnWhereColumn ==
    /\ selectNode.where.on
    /\ \E i \in 1..Len(sqliteSchema.indexes) :
           /\ sqliteSchema.indexes[i].tableName = selectNode.table
           /\ sqliteSchema.indexes[i].columns # <<>>
           /\ sqliteSchema.indexes[i].columns[1] = selectNode.where.columnName

C15_IndexedPathExactlyWhen ==
    arg.call # "none" =>
        IF IndexOnWhereColumn
        THEN /\ arg.call \in {"getRowIdsWithIndexValue", "getRowsByRowIds"}
             /\ arg.call = "getRowIdsWithIndexValue" =>
                    /\ arg.indexValue = <<selectNode.where.value>>
                    /\ \E i \in 1..Len(sqliteSchema.indexes) :
                           /\ sqliteSchema.indexes[i].tableName = selectNode.table
                           /\ sqliteSchema.indexes[i].columns[1] =
                                  selectNode.where.columnName
                           /\ sqliteSchema.indexes[i].rootPage = arg.rootPage
             /\ arg.call = "getRowsByRowIds" => arg.rootPage = SelectTable.rootPage
        ELSE /\ arg.call = "getAllTableRows"
             /\ arg.rootPage = SelectTable.rootPage
             /\ arg.filter = selectNode.where

\* The lookups of an indexed SELECT on t have printed rows, in a database
\* that has the index on u(c) as well.
C15_IndexedWithOtherIndex ==
    /\ pc = "resolved"
    /\ arg.call = "getRowsByRowIds"
    /\ Len(sqliteSchema.indexes) = 2
    /\ stdout # <<>>

(***************************************************************************)
(* C16: a SELECT that names an unknown table, an unknown column in its     *)
(* projection or in its WHERE clause, or the count together with another   *)
(* projected column, fails with an error before any page of the table or   *)
(* of an index is read, and writes nothing to standard output.             *)
(***************************************************************************)
ColumnNamesOf(tableName) ==
    UNION {{sqliteSchema.tables[i].tableSchema[j].name :
               j \in 1..Len(sqliteSchema.tables[i].tableSchema)} :
           i \in {k \in 1..Len(sqliteSchema.tables) :
                     sqliteSchema.tables[k].name = tableName}}

InvalidSelect ==
    \/ \A i \in 1..Len(sqliteSchema.tables) :
           sqliteSchema.tables[i].name # selectNode.table
    \/ \E j \in 1..Len(selectNode.columns) :
           /\ selectNode.columns[j] # "count(*)"
           /\ selectNode.columns[j] \notin ColumnNamesOf(selectNode.table)
    \/ /\ selectNode.where.on
       /\ selectNode.where.columnName \notin ColumnNamesOf(selectNode.table)
    \/ /\ Len(selectNode.columns) > 1
       /\ \E j \in 1..Len(selectNode.columns) : selectNode.columns[j] = "count(*)"

C16_FailsBeforeAnyRead ==
    (selectNode # NoSelect /\ pc # "executeSelect" /\ InvalidSelect) =>
        /\ pc = "threw"
        /\ arg.call = "none"
        /\ reads = <<>>
        /\ stdout = <<>>

\* The statement with the unknown column in its WHERE clause has failed.
C16_UnknownWhereColumn ==
    /\ pc = "threw"
    /\ ret = "Column not found"
    /\ selectNode.where.on
    /\ selectNode.where.columnName \notin ColumnNamesOf(selectNode.table)
    /\ reads = <<>>

(***************************************************************************)
(* C17: if a page read or the decoding of a cell or of a value fails       *)
(* during a query, in the scan, in the index walk or in one of the         *)
(* concurrent point lookups, the whole query fails: no row and no count is *)
(* written to standard output, the error reaches the catch of main, which  *)
(* reports it, and no page is read a second time.                          *)
(***************************************************************************)
DescentFailed ==
    \/ \E i \in 1..Len(descents) : descents[i].status = "rejected"
    \/ \E p \in DOMAIN cache : cache[p] = "rejected"

WalkFailed == arg.call # "none" /\ (pc = "threw" \/ DescentFailed)

C17_FailureFailsQuery ==
    /\ [](WalkFailed =>
            /\ stdout = <<>>
            /\ pc \notin {"returned", "resolved"}
            /\ \A p \in DOMAIN reads : reads[p] <= 1)
    /\ []((DescentFailed /\ pc \in {"closeDatabase", "exited"}) => stderr # <<>>)
    /\ [](stderr # <<>> => (stdout = <<>> /\ pc \in {"closeDatabase", "exited"}))
    /\ [][pc = "threw" =>
            /\ pc' = "closeDatabase"
            /\ stderr' = <<ret>>
            /\ stdout' = stdout
            /\ reads' = reads]_vars

\* One of two concurrent lookups failed on a page that readPage throws on,
\* the other had its row, and main has reported the error.
C17_LookupPageReadFailed ==
    /\ pc = "exited"
    /\ arg.call = "getRowsByRowIds"
    /\ \E p \in DOMAIN cache : cache[p] = "rejected"
    /\ \E i \in 1..Len(descents) : descents[i].status = "fulfilled"
    /\ stderr = <<"Unsupported page type">>
    /\ stdout = <<>>

(***************************************************************************)
(* C18: on a table interior page whose keys strictly increase in cell      *)
(* order, a page without cells included, getChildTablePageContainingRowId  *)
(* returns the left child of the first cell whose key is at least rowId,   *)
(* and the rightmost pointer exactly when every key is below rowId.  The   *)
(* keys are the stored ones: that of the i-th stored row-id is 100 i - 99  *)
(* up to MaxRowId and 2^31 after, above every rowId searched.              *)
(***************************************************************************)
KeyAtLeast(i, rowId) == i > MaxRowId \/ 100 * i - 99 >= rowId

C18_LowerBoundChild ==
    pc = "returned" =>
        LET keys == SortedSeq(arg.keys)
            atLeast == {j \in 1..Len(keys) : KeyAtLeast(keys[j], arg.rowId)}
        IN  IF atLeast = {}
            THEN ret = arg.page.rightMostPointer
            ELSE /\ ret = arg.page.cells[CHOOSE j \in atLeast :
                                            \A k \in atLeast : j <= k].leftChildPointer
                 /\ ret # arg.page.rightMostPointer

(***************************************************************************)
(* C19: on a table leaf page of n >= 0 cells with strictly increasing      *)
(* row-ids, the bisection of getCellWithRowIdFromTableLeafPage decodes     *)
(* only cells of indices 0 to n - 1, returns the cell whose row-id is      *)
(* rowId when there is one and null when there is none, also for a rowId   *)
(* above every row-id of the page and for the page without cells.          *)
(***************************************************************************)
C19_LeafSearchInRange ==
    pc = "returned" =>
        LET keys == SortedSeq(arg.keys)
            equal == {j \in 1..Len(keys) :
                         keys[j] <= MaxRowId /\ 100 * keys[j] - 99 = arg.rowId}
        IN  /\ ret # -1
            /\ equal # {} => ret \in equal
            /\ equal = {} => ret = 0

(***************************************************************************)
(* C20: on an index B-tree whose keys do not decrease along its in-order   *)
(* traversal, the pruned traversal of getRowIdsWithIndexValue misses       *)
(* nothing: the row-id of every cell, of a leaf or of an interior page,    *)
(* whose leading columns equal the key prefix is in the result exactly     *)
(* once.  The columns of a cell are the values it stores: an integer of    *)
(* 1 to 6 bytes is the big-endian two's complement value of its bytes.     *)
(***************************************************************************)
RECURSIVE SignedBigEndian(_)
SignedBigEndian(bytes) ==
    IF Len(bytes) = 1 THEN SignedByte(bytes[1])
    ELSE SignedBigEndian(SubSeq(bytes, 1, Len(bytes) - 1)) * 256 + bytes[Len(bytes)]

RECURSIVE StoredColumnsFrom(_, _, _)
StoredColumnsFrom(codes, bytes, i) ==
    IF i > Len(codes) THEN <<>>
    ELSE LET code == codes[i]
             size == CASE code \in 1..4 -> code
                       [] code = 5 -> 6
                       [] code >= 13 -> (code - 13) \div 2
                       [] OTHER -> 0
             value == CASE code \in 1..5 -> Num(SignedBigEndian(SubSeq(bytes, 1, size)))
                        [] code \in 8..9 -> Num(code - 8)
                        [] code >= 13 -> Str(SubSeq(bytes, 1, size))
                        [] OTHER -> Null
         IN  <<value>> \o StoredColumnsFrom(codes, SubSeq(bytes, size + 1, Len(bytes)), i + 1)

StoredColumnsOf(c) ==
    StoredColumnsFrom(file[c[1]].cells[c[2]].serialTypeCodes, file[c[1]].cells[c[2]].body, 1)

LeadingColumnsEqual(c, keyPrefix) ==
    /\ Len(keyPrefix) <= Len(StoredColumnsOf(c))
    /\ \A j \in 1..Len(keyPrefix) : StoredColumnsOf(c)[j] = keyPrefix[j]

C20_MissesNothing ==
    (pc = "returned" /\ arg.call = "getRowIdsWithIndexValue") =>
        \A c \in IndexCells :
            LeadingColumnsEqual(c, arg.indexValue) =>
                Cardinality({n \in 1..Len(ret) : ret[n] = Pop(StoredColumnsOf(c))}) = 1

(***************************************************************************)
(* C24: a source that opens with a quote and holds a second quote of the   *)
(* same kind is scanned as one String token, whose lexeme is the text      *)
(* between the two quotes (the empty text when they are adjacent),         *)
(* followed by the tokens of the text after the closing quote; scanSql     *)
(* raises an error for it only when scanning that remaining text does.     *)
(***************************************************************************)
Quotes == {"'", "\""}

\* The positions after the opening quote that hold a quote of its kind.
ClosingQuotes(source) == {i \in 2..Len(source) : source[i] = source[1]}

OpensWithLiteral(source) ==
    /\ source # <<>>
    /\ source[1] \in Quotes
    /\ ClosingQuotes(source) # {}

MatchingQuote(source) ==
    CHOOSE i \in ClosingQuotes(source) : \A j \in ClosingQuotes(source) : i <= j

LiteralContent(source) == SubSeq(source, 2, MatchingQuote(source) - 1)

AfterLiteral(source) == SubSeq(source, MatchingQuote(source) + 1, Len(source))

C24_LiteralIsOneString ==
    (pc # "scanSql" /\ OpensWithLiteral(arg)) =>
        /\ ret.error = scanSql(AfterLiteral(arg)).error
        /\ ret.error = "" =>
               ret.value = <<[type |-> "string", lexeme |-> LiteralContent(arg)]>>
                               \o scanSql(AfterLiteral(arg)).value

\* The same for literals with at least one character between the quotes.
C24_NonEmptyLiteralIsOneString ==
    (pc # "scanSql" /\ OpensWithLiteral(arg) /\ LiteralContent(arg) # <<>>) =>
        /\ ret.error = scanSql(AfterLiteral(arg)).error
        /\ ret.error = "" =>
               ret.value = <<[type |-> "string", lexeme |-> LiteralContent(arg)]>>
                               \o scanSql(AfterLiteral(arg)).value

(***************************************************************************)
(* C22: when every leaf of the table B-tree is at the same depth, the rows *)
(* that getAllTableRows returns are in strictly increasing order of the    *)
(* row-ids stored in their cells, in whatever order the reads of the child *)
(* pages of an interior page complete.                                     *)
(***************************************************************************)
\* The depths at which the subtree of page p has its leaves, p at depth d.
RECURSIVE LeafDepths(_, _, _)
LeafDepths(f, p, d) ==
    IF p \notin DOMAIN f THEN {}
    ELSE IF f[p].type # InteriorTable THEN {d}
    ELSE LET pointers == TableChildPointers(f[p])
         IN  UNION {LeafDepths(f, pointers[i], d + 1) : i \in 1..Len(pointers)}

\* The place of a row's stored row-id among the stored row-ids.
RowIdRank(row) ==
    CHOOSE i \in 1..NumIds : StoredRowId(i) = file[row.cell[1]].cells[row.cell[2]].varint

C22_ScanInRowIdOrder ==
    (/\ pc = "returned"
     /\ arg.call = "getAllTableRows"
     /\ Cardinality(LeafDepths(file, arg.rootPage, 1)) <= 1) =>
        \A i, j \in 1..Len(ret) : i < j => RowIdRank(ret[i]) < RowIdRank(ret[j])

\* A scan has returned the rows of three leaves whose reads completed in
\* another order than the one they were issued in.
C22_ReadsCompletedOutOfOrder ==
    /\ pc = "returned"
    /\ arg.call = "getAllTableRows"
    /\ Len(descents) = 3
    /\ descents[1].settled = 3
    /\ descents[2].settled = 1
    /\ Len(ret) = NumIds
    /\ RowIdRank(ret[NumIds]) = NumIds

(***************************************************************************)
(* C23: on a page graph without a cycle reachable from the root, every     *)
(* step of the loop of getAllTableRows brings the number of pages still to *)
(* dequeue down by one, and the traversal returns with an empty queue      *)
(* after reading, and dequeuing, each page once for every path that leads  *)
(* to it from the root: exactly once when the graph is a tree.  On a graph *)
(* with a cycle reachable from the root the queue never empties and the    *)
(* traversal never returns.                                                *)
(***************************************************************************)
\* The pages that page p of file f points to, as the page stores them.
PointersOf(f, p) ==
    IF f[p].type # InteriorTable THEN <<>>
    ELSE [i \in 1..Len(f[p].cells) |-> f[p].cells[i].leftChildPointer]
             \o <<f[p].rightMostPointer>>

\* A path of n pointers starts at page p.
RECURSIVE PathOfLength(_, _, _)
PathOfLength(f, p, n) ==
    \/ n = 0
    \/ \E i \in 1..Len(PointersOf(f, p)) : PathOfLength(f, PointersOf(f, p)[i], n - 1)

\* A path with more pointers than the file has pages passes a page twice.
CycleReachable == PathOfLength(file, TableRoot, Cardinality(DOMAIN file))

\* The number of paths to page q from the pages of a queue, each page of the
\* queue counting as many times as it is queued.
RECURSIVE PathsFrom(_, _, _)
PathsFrom(f, queue, q) ==
    IF queue = <<>> THEN 0
    ELSE (IF Head(queue) = q THEN 1 ELSE 0)
             + PathsFrom(f, PointersOf(f, Head(queue)), q)
             + PathsFrom(f, Tail(queue), q)

TimesRead(q) == IF q \in DOMAIN reads THEN reads[q] ELSE 0

\* The pages still to dequeue, on a graph without a cycle.
StillToDequeue ==
    LET paths == [q \in DOMAIN file |-> PathsFrom(file, pages, q)]
    IN  SumOver(paths, DOMAIN file)

C23_OncePerPath ==
    (pc = "returned" /\ ~CycleReachable) =>
        /\ pages = <<>>
        /\ \A q \in DOMAIN file : TimesRead(q) = PathsFrom(file, <<TableRoot>>, q)

C23_CycleNeverReturns ==
    CycleReachable =>
        /\ pc # "returned"
        /\ pc = "getAllTableRows" => pages # <<>>

C23_EveryStepDequeues ==
    (pc = "getAllTableRows" /\ pages # <<>> /\ ~CycleReachable) =>
        /\ pc' = "getAllTableRows"
        /\ StillToDequeue' = StillToDequeue - 1

TypeAt(tokens, k) == IF k \in 1..Len(tokens) THEN tokens[k].type ELSE "none"

\* The positions at which a col that starts at position k can end.
ColEnds(tokens, k) ==
    (IF TypeAt(tokens, k) \in {"identifier", "string"} THEN {k} ELSE {})
    \cup
    (IF /\ TypeAt(tokens, k) = "identifier"
        /\ toLowerCase(tokens[k].lexeme) = <<"c", "o", "u", "n", "t">>
        /\ TypeAt(tokens, k + 1) = "left_paren"
        /\ TypeAt(tokens, k + 2) = "star"
        /\ TypeAt(tokens, k + 3) = "right_paren"
     THEN {k + 3} ELSE {})

\* The positions at which col (',' col)* that starts at position k can end.
RECURSIVE ColListEnds(_, _)
ColListEnds(tokens, k) ==
    UNION {{e} \cup (IF TypeAt(tokens, e + 1) = "comma"
                     THEN ColListEnds(tokens, e + 2) ELSE {})
           : e \in ColEnds(tokens, k)}

\* The positions at which FROM IDENT (WHERE where)? can end after position e,
\* with a WHERE column of one of the given types.
SelectEnds(tokens, e, columnTypes) ==
    IF TypeAt(tokens, e + 1) = "from" /\ TypeAt(tokens, e + 2) = "identifier"
    THEN {e + 2} \cup
         (IF /\ TypeAt(tokens, e + 3) = "where"
             /\ TypeAt(tokens, e + 4) \in columnTypes
             /\ TypeAt(tokens, e + 5) = "equal"
             /\ TypeAt(tokens, e + 6) \in {"number", "string"}
          THEN {e + 6} ELSE {})
    ELSE {}

MatchesSelect(tokens) ==
    /\ TypeAt(tokens, 1) = "select"
    /\ \E e \in ColListEnds(tokens, 2) :
           \E end \in SelectEnds(tokens, e, {"identifier"}) :
               TypeAt(tokens, end + 1) = "eof"

C25_SelectNodeOnlyForGrammar ==
    (pc # "parseSql" /\ TypeAt(arg, 1) = "select") =>
        (ret.error = "" <=> MatchesSelect(arg))

\* What parseSql accepts: a stream of which the tokens consumed match the
\* grammar, with an identifier or a string as WHERE column, whatever follows
\* them, WHERE excepted after the table name.
C25_SelectNodeForPrefix ==
    (pc # "parseSql" /\ TypeAt(arg, 1) = "select") =>
        (ret.error = "" <=>
            \E e \in ColListEnds(arg, 2) :
                /\ TypeAt(arg, e + 1) # "comma"
                /\ \E end \in SelectEnds(arg, e, {"identifier", "string"}) :
                       /\ ret.current = end
                       /\ end = e + 2 => TypeAt(arg, e + 3) # "where")

(***************************************************************************)
(* C26: when the CREATE TABLE text of the table does not declare a column  *)
(* INTEGER PRIMARY KEY (its primary key column has another type or none,   *)
(* or it declares no primary key), every row of the full scan carries      *)
(* under each retrieved column name the value decoded from that column's   *)
(* field of the record, never the row-id of the cell; and in every case    *)
(* the columns other than the primary key column carry their decoded       *)
(* values.                                                                 *)
(***************************************************************************)
DeclaresIntegerPrimaryKey(sql) == sql = CreateTableSql(IntegerType, PrimaryKeyConstraint)

DeclaresPrimaryKey(sql) ==
    \E type \in DeclaredTypes : sql = CreateTableSql(type, PrimaryKeyConstraint)

\* The columns of a row as readRecord decodes them from the row's cell.
DecodedColumns(row) ==
    readRecord(readTableLeafCell(file[row.cell[1]].cells[row.cell[2]]),
               arg.tableSchema, arg.columnsToRetrieve).row

C26_OnlyIntegerPrimaryKey ==
    (pc = "returned" /\ arg.call = "getAllTableRows") =>
        \A i \in 1..Len(ret) :
            \A name \in arg.columnsToRetrieve :
                (\/ ~DeclaresIntegerPrimaryKey(sqliteSchema.tables[1].sql)
                 \/ name # <<"i", "d">>) =>
                    ret[i].columns[name] = DecodedColumns(ret[i])[name]

\* The same with the row-id under every column declared PRIMARY KEY,
\* whatever its type.
C26_AnyPrimaryKey ==
    (pc = "returned" /\ arg.call = "getAllTableRows") =>
        \A i \in 1..Len(ret) :
            \A name \in arg.columnsToRetrieve :
                ret[i].columns[name] =
                    IF DeclaresPrimaryKey(sqliteSchema.tables[1].sql) /\ name = <<"i", "d">>
                    THEN Num(RowIdOf(ret[i]))
                    ELSE DecodedColumns(ret[i])[name]

(***************************************************************************)
(* C21: for a table with an index on c that holds one entry per row, a     *)
(* statement with WHERE c = v ends the same way through the index walk and *)
(* the point lookups as through the full scan with the filter              *)
(* row[c] === v, and when both return they give the same rows, each as     *)
(* many times, for a number and for a string v.                            *)
(***************************************************************************)
\* What console.log writes for the rows of the statement.
LinesOf(tableRows) ==
    IF Includes(selectNode.columns, "count(*)") THEN <<<<Num(Len(tableRows))>>>>
    ELSE [i \in 1..Len(tableRows) |->
             [j \in 1..Len(selectNode.columns) |->
                 Field(tableRows[i], selectNode.columns[j])]]

Occurrences(lines, line) == Cardinality({i \in 1..Len(lines) : lines[i] = line})

SameMultiset(a, b) ==
    /\ Len(a) = Len(b)
    /\ \A i \in 1..Len(a) : Occurrences(a, a[i]) = Occurrences(b, a[i])

\* The scan has ended after the statement that took the index.
BothPathsEnded ==
    /\ pc \in {"returned", "threw"}
    /\ arg.call = "getAllTableRows"
    /\ done # <<>>

C21_IndexedEqualsScan ==
    BothPathsEnded =>
        /\ done[1].outcome = "resolved" <=> pc = "returned"
        /\ pc = "returned" => SameMultiset(done[1].result, LinesOf(ret))

\* The integers stored in the file have 1 or 2 bytes, as readRecordColumnValue
\* decodes them: serial type codes 3, 5 and 6 do not occur.
OnlyDecodedIntegers ==
    \A p \in DOMAIN file : \A i \in 1..Len(file[p].cells) :
        \A k \in 1..Len(file[p].cells[i].serialTypeCodes) :
            file[p].cells[i].serialTypeCodes[k] \notin {3, 5, 6}

C21_IndexedEqualsScanWhenDecoded ==
    (BothPathsEnded /\ OnlyDecodedIntegers) =>
        /\ done[1].outcome = "resolved" <=> pc = "returned"
        /\ pc = "returned" => SameMultiset(done[1].result, LinesOf(ret))

\* Both paths have returned two rows of a two-level table.
C21_BothReturnedTwoRows ==
    /\ BothPathsEnded
    /\ OnlyDecodedIntegers
    /\ pc = "returned"
    /\ Len(ret) = 2
    /\ Len(done[1].result) = 2
    /\ file[TableRoot].type = InteriorTable

=============================================================================
